---- MODULE Spec2Model ----
(***************************************************************************)
(* zk-transfer (librustzk): the three Groth16 circuits of src/zk.rs and    *)
(* the FFI entry points of src/lib.rs.                                     *)
(*                                                                         *)
(* A run of the model is one call of a generate_* entry point followed by  *)
(* a call of the matching verify_* entry point.  `prover` says how the     *)
(* witness of the constraint system is assigned: "honest" takes every     *)
(* allocated value from the closure the source passes to alloc, "malicious"*)
(* takes any value the enforced constraints admit.  The gadgets of zk.rs   *)
(* are also run on their own, on operands of their whole domain, and       *)
(* bulid_merkle_tree one loop iteration at a time.  _jubjub_hash is run    *)
(* call by call, and get_bls_params by several threads at once.            *)
(*                                                                         *)
(* Scale.  The scalar field has Modulus elements (r in the source), the    *)
(* friend tree has FRIENDS_MERKLE_DEPTH levels (4 in the source) and the   *)
(* verification tree VERIFICATION_MERKLE_DEPTH (32 in the source).  The    *)
(* literal 16 of check_address_cnt is MAX_FRIENDS_LEN at every scale.      *)
(***************************************************************************)
EXTENDS Integers, Sequences, FiniteSets, TLC

VARIABLES circuit, prover, inst, pc, pub, w, sat, proof, proof_out_buf, inputs,
          vargs, ret

vars == <<circuit, prover, inst, pc, pub, w, sat, proof, proof_out_buf, inputs,
          vargs, ret>>

FRIENDS_MERKLE_DEPTH == 1

VERIFICATION_MERKLE_DEPTH == 1

Modulus == 7

RECURSIVE Pow2(_)
Pow2(n) == IF n = 0 THEN 1 ELSE 2 * Pow2(n - 1)

MAX_FRIENDS_LEN == Pow2(FRIENDS_MERKLE_DEPTH)

RECURSIVE BitLength(_)
BitLength(n) == IF n = 0 THEN 0 ELSE 1 + BitLength(n \div 2)

\* PrimeField::NUM_BITS: the bit length of the modulus (255 for r).
NUM_BITS == BitLength(Modulus)

(***************************************************************************)
(* Field elements.  A scalar is <<"fr", n>> with n in 0..Modulus-1.  A     *)
(* Pedersen digest is the term <<"ph", personalization, left, right>> of   *)
(* the two bit strings hashed: distinct preimages or tags give distinct    *)
(* digests (collision resistance), and no digest equals an input scalar.   *)
(***************************************************************************)
Fr(n) == <<"fr", n % Modulus>>

IsScalar(x) == x[1] = "fr"

FrScalars == {Fr(n) : n \in 0..(Modulus - 1)}

NoteCommitment == <<"NoteCommitment">>

MerkleTree(level) == <<"MerkleTree", level>>

\* Fr::add_assign on a scalar.
FrAdd(a, b) == Fr(a[2] + b[2])

(***************************************************************************)
(* Bit strings.  The NUM_BITS little-endian bits of a scalar are a         *)
(* function 1..NUM_BITS -> BOOLEAN, bit i having weight 2^(i-1).  A        *)
(* digest's bits stay symbolic: <<"le", digest, 0>>.                       *)
(***************************************************************************)
LeBits(n) == <<"le", [i \in 1..NUM_BITS |-> (n \div Pow2(i - 1)) % 2 = 1]>>

RECURSIVE PackFrom(_, _)
PackFrom(b, i) ==
    IF i > NUM_BITS THEN 0
    ELSE (IF b[i] THEN Pow2(i - 1) ELSE 0) + PackFrom(b, i + 1)

\* The linear combination sum 2^i * bit_i of into_bits_le, over the integers.
Pack(b) == PackFrom(b, 1)

\* fr_to_bits_le: BitIterator (big-endian) reversed, first NUM_BITS bits.
fr_to_bits_le(x) ==
    IF IsScalar(x) THEN LeBits(x[2]) ELSE <<"le", x, 0>>

\* The bit strings of NUM_BITS bits whose linear combination is n mod r.
Decompositions ==
    [n \in 0..(Modulus - 1) |->
        {c \in [1..NUM_BITS -> BOOLEAN] : Pack(c) % Modulus = n}]

\* AllocatedNum::into_bits_le as combine_hash and fr_eq call it: NUM_BITS
\* boolean-constrained bits and the single constraint
\*     sum 2^i * bit_i = value   (in the field, i.e. mod r),
\* with no check that the bits encode a number below r.  The closure
\* assigns the bits of the canonical representative.
into_bits_le(x, who) ==
    IF who = "honest" \/ ~IsScalar(x)
    THEN {fr_to_bits_le(x)}
    ELSE {<<"le", b>> : b \in Decompositions[x[2]]}

\* Boolean::xor(x, y).not() folded with Boolean::and over the zipped bits.
RECURSIVE XnorAndFrom(_, _, _, _)
XnorAndFrom(a, b, i, result) ==
    IF i > NUM_BITS THEN result
    ELSE LET s == ~((a[i] /\ ~b[i]) \/ (~a[i] /\ b[i]))
         IN  XnorAndFrom(a, b, i + 1, result /\ s)

BitsAllEqual(a, b) ==
    IF Len(a) = 2 /\ Len(b) = 2 THEN XnorAndFrom(a[2], b[2], 1, TRUE)
    ELSE a = b

\* fr_eq: the set of booleans the gadget can return for (a, b).
fr_eq(a, b, who) ==
    {BitsAllEqual(x, y) : x \in into_bits_le(a, who), y \in into_bits_le(b, who)}

\* fr_eq tabulated over the scalars, per prover.
FrEqTable ==
    [who \in {"honest", "malicious"} |->
        [a \in 0..(Modulus - 1) |->
            [b \in 0..(Modulus - 1) |-> fr_eq(Fr(a), Fr(b), who)]]]

\* fr_eq, read from the table when both operands are scalars.
FrEq(a, b, who) ==
    IF IsScalar(a) /\ IsScalar(b) THEN FrEqTable[who][a[2]][b[2]]
    ELSE fr_eq(a, b, who)

\* A variant of combine_hash that hashes the bits of xr before those of xl.
combine_hash_right_first(personalization, xl, xr, who) ==
    {<<"ph", personalization, r, l>> :
        l \in into_bits_le(xl, who), r \in into_bits_le(xr, who)}

\* combine_hash: the set of digests the gadget can return for (xl, xr).
combine_hash(personalization, xl, xr, who) ==
    {<<"ph", personalization, l, r>> :
        l \in into_bits_le(xl, who), r \in into_bits_le(xr, who)}

(***************************************************************************)
(* Merkle gadgets.                                                         *)
(***************************************************************************)
\* A variant of conditionally_reverse that reverses when the condition fails.
conditionally_reverse_inverted(a, b, condition) ==
    IF condition THEN <<a, b>> ELSE <<b, a>>

\* AllocatedNum::conditionally_reverse(a, b, condition): (b, a) when the
\* condition holds, (a, b) otherwise; both outputs are constrained.
conditionally_reverse(a, b, condition) ==
    IF condition THEN <<b, a>> ELSE <<a, b>>

\* merkle_root_from_path from step i (0-based) with current node cur;
\* auth_path[i + 1] = <<path_element, cur_is_right>>.
RECURSIVE MerklePathFrom(_, _, _, _)
MerklePathFrom(cur, auth_path, i, who) ==
    IF i >= Len(auth_path) THEN {cur}
    ELSE LET x == conditionally_reverse(cur, auth_path[i + 1][1], auth_path[i + 1][2])
         IN  UNION {MerklePathFrom(h, auth_path, i + 1, who) :
                        h \in combine_hash(MerkleTree(i), x[1], x[2], who)}

\* A variant of merkle_root_from_path that starts at the second element of
\* the path.
merkle_root_from_path_skip_first(leaf, auth_path, who) ==
    MerklePathFrom(leaf, auth_path, 1, who)

merkle_root_from_path(leaf, auth_path, who) ==
    MerklePathFrom(leaf, auth_path, 0, who)

\* A variant of HashPairs that hashes every pair under MerkleTree(0).
RECURSIVE HashPairsLevelZero(_, _, _, _)
HashPairsLevelZero(prev, level, i, who) ==
    IF i > Len(prev) \div 2 THEN {<<>>}
    ELSE {<<h>> \o rest :
            h \in combine_hash(MerkleTree(0), prev[2 * i - 1], prev[2 * i], who),
            rest \in HashPairsLevelZero(prev, level, i + 1, who)}

\* The for loop of bulid_merkle_tree at one level: the vectors cur can
\* become, pair i (1-based) being (prev[2i-1], prev[2i]).
RECURSIVE HashPairs(_, _, _, _)
HashPairs(prev, level, i, who) ==
    IF i > Len(prev) \div 2 THEN {<<>>}
    ELSE {<<h>> \o rest :
            h \in combine_hash(MerkleTree(level), prev[2 * i - 1], prev[2 * i], who),
            rest \in HashPairs(prev, level, i + 1, who)}

\* The while loop of bulid_merkle_tree, for a length that is a power of two.
RECURSIVE BuildFrom(_, _, _)
BuildFrom(cur, level, who) ==
    IF Len(cur) = 1 THEN {cur[1]}
    ELSE UNION {BuildFrom(nxt, level + 1, who) : nxt \in HashPairs(cur, level, 1, who)}

bulid_merkle_tree(leaves, who) == BuildFrom(leaves, 0, who)

\* get_verification_from_parts: the ladder over (pre_transfer_index, nonce1),
\* sender_address, nonce2, with NoteCommitment at each step.
get_verification_from_parts(pre_transfer_index, sender_address, nonce1, nonce2, who) ==
    UNION {UNION {combine_hash(NoteCommitment, t2, nonce2, who) :
                    t2 \in combine_hash(NoteCommitment, t1, sender_address, who)} :
             t1 \in combine_hash(NoteCommitment, pre_transfer_index, nonce1, who)}

\* A variant of the conjunction below that ignores addr_nonzero.
fails_whatever_the_address(addr_nonzero, verification_eq, verification_exists) ==
    ~(verification_eq /\ verification_exists)

\* PreparationCircuit::synthesize: verification_check_fails is
\* (verification_eq AND verification_exists).not(), and fails is
\* addr_nonzero AND verification_check_fails.
fails(addr_nonzero, verification_eq, verification_exists) ==
    LET verification_check_fails == ~(verification_eq /\ verification_exists)
    IN  addr_nonzero /\ verification_check_fails

(***************************************************************************)
(* Counting and threshold.                                                 *)
(***************************************************************************)
\* The witness "alloc zero": the closure yields 0 and no constraint is
\* enforced on the variable.
AllocZero(who) == IF who = "honest" THEN {Fr(0)} ELSE FrScalars

RECURSIVE CountTrueFrom(_, _)
CountTrueFrom(b, i) ==
    IF i > Len(b) THEN 0
    ELSE (IF b[i] THEN 1 ELSE 0) + CountTrueFrom(b, i + 1)

\* The number of true entries of a boolean vector.
CountTrue(b) == CountTrueFrom(b, 1)

\* A variant of count_valid_addreses without the comparison against zero:
\* every slot counts as not null.
count_valid_addreses_no_null_check(addreses, vlist, who) ==
    {[is_addr_not_null |-> [i \in 1..Len(addreses) |-> TRUE],
      is_addr_valid |-> vlist,
      valid_bit |-> vlist,
      result |-> Fr(CountTrue(vlist))]}

\* count_valid_addreses: the assignments the gadget admits for some value z
\* of the allocated zero, each with the two boolean vectors (is_addr_not_null
\* from the comparisons against z), the re-allocated validity bits
\* (each enforced equal to is_addr_valid[i]) and the result, which
\* "enforce result" ties to the sum of the validity bits.
count_valid_addreses(addreses, vlist, who) ==
    UNION {
      LET not_null == [i \in 1..Len(addreses) |->
                         {~e : e \in FrEq(addreses[i], z, who)}]
      IN  {[is_addr_not_null |-> nn,
            is_addr_valid |-> [i \in 1..Len(vlist) |-> vlist[i] /\ nn[i]],
            valid_bit |-> [i \in 1..Len(vlist) |-> vlist[i] /\ nn[i]],
            result |-> Fr(CountTrue([i \in 1..Len(vlist) |-> vlist[i] /\ nn[i]]))] :
              nn \in {f \in [1..Len(addreses) -> BOOLEAN] :
                        \A i \in 1..Len(addreses) : f[i] \in not_null[i]}} :
      z \in AllocZero(who)}

\* A variant of check_address_cnt whose offsets start at 1 instead of 0.
check_address_cnt_from_one(address_cnt, threshold, who) ==
    LET ks     == 0..(MAX_FRIENDS_LEN - 1)
        aboves == [k \in ks |-> FrAdd(threshold, Fr(k + 1))]
        not_eq == [k \in ks |-> {~e : e \in FrEq(address_cnt, aboves[k], who)}]
    IN  {[aboves |-> aboves,
          not_eqs |-> ne,
          result |-> ~(\A k \in ks : ne[k])] :
            ne \in {f \in [ks -> BOOLEAN] : \A k \in ks : f[k] \in not_eq[k]}}

\* check_address_cnt: the assignments the gadget admits.  aboves[k] is the
\* value "threshold+k", k = 0..15 in the source, which "constraint
\* threshold-k" ties to threshold + k; result is all_not_eq.not().
check_address_cnt(address_cnt, threshold, who) ==
    LET ks     == 0..(MAX_FRIENDS_LEN - 1)
        aboves == [k \in ks |-> FrAdd(threshold, Fr(k))]
        not_eq == [k \in ks |-> {~e : e \in FrEq(address_cnt, aboves[k], who)}]
    IN  {[aboves |-> aboves,
          not_eqs |-> ne,
          result |-> ~(\A k \in ks : ne[k])] :
            ne \in {f \in [ks -> BOOLEAN] : \A k \in ks : f[k] \in not_eq[k]}}

(***************************************************************************)
(* The hash ladder outside the circuit, as the tests compute the roots     *)
(* they hand to the circuits.                                              *)
(***************************************************************************)
\* tests::combine_hash: Pedersen hash of fr_to_bits_le(a) ++ fr_to_bits_le(b).
TestCombineHash(personalization, a, b) ==
    <<"ph", personalization, fr_to_bits_le(a), fr_to_bits_le(b)>>

\* The while loop of the tests over the friends vector.
RECURSIVE TestTreeFrom(_, _)
TestTreeFrom(cur, level) ==
    IF Len(cur) <= 1 THEN cur[1]
    ELSE TestTreeFrom([i \in 1..(Len(cur) \div 2) |->
                          TestCombineHash(MerkleTree(level), cur[2 * i - 1], cur[2 * i])],
                      level + 1)

TestAddrRoot(friends) == TestTreeFrom(friends, 0)

\* t of the tests: H(H(addr_root, passphrase), threshold).
TestPrefix(addr_root, passphrase, threshold) ==
    TestCombineHash(NoteCommitment,
        TestCombineHash(NoteCommitment, addr_root, passphrase), threshold)

\* commit_root (with nonce) and commit_root_t (with addr_new) of the tests.
TestCommitRoot(addr_root, passphrase, threshold, last) ==
    TestCombineHash(NoteCommitment, TestPrefix(addr_root, passphrase, threshold), last)

\* tests::test_merkle_root_from_path: the root the test computes from a
\* leaf and an authentication path of (uncle, cur_is_right) pairs.
RECURSIVE TestMerklePathFrom(_, _, _)
TestMerklePathFrom(cur, auth_path, i) ==
    IF i >= Len(auth_path) THEN cur
    ELSE LET uncle == auth_path[i + 1][1]
             b     == auth_path[i + 1][2]
             lhs   == IF b THEN uncle ELSE cur
             rhs   == IF b THEN cur ELSE uncle
         IN  TestMerklePathFrom(TestCombineHash(MerkleTree(i), lhs, rhs), auth_path, i + 1)

TestMerkleRoot(leaf, auth_path) == TestMerklePathFrom(leaf, auth_path, 0)

\* The authentication path of the leaf at 0-based position pos of a tree
\* over the given nodes: at each level the sibling and whether the current
\* node is the right child.
RECURSIVE AuthPathFrom(_, _, _)
AuthPathFrom(nodes, pos, level) ==
    IF Len(nodes) <= 1 THEN <<>>
    ELSE LET sibling == IF pos % 2 = 1 THEN nodes[pos] ELSE nodes[pos + 2]
             up == [i \in 1..(Len(nodes) \div 2) |->
                      TestCombineHash(MerkleTree(level), nodes[2 * i - 1], nodes[2 * i])]
         IN  <<<<sibling, pos % 2 = 1>>>> \o AuthPathFrom(up, pos \div 2, level + 1)

AuthPath(leaves, pos) == AuthPathFrom(leaves, pos, 0)

\* The verification token of (pre_transfer_index, nonce1, friend, nonce2).
TestVerification(pre_transfer_index, sender_address, nonce1, nonce2) ==
    TestCombineHash(NoteCommitment,
        TestCombineHash(NoteCommitment,
            TestCombineHash(NoteCommitment, pre_transfer_index, nonce1),
            sender_address),
        nonce2)

(***************************************************************************)
(* The constraint system and the proof system.                             *)
(***************************************************************************)
Provers == {"honest", "malicious"}

\* A malicious assignment is followed only while it satisfies every
\* constraint enforced so far: any other gives no proof a verifier accepts.
Admitted(who, s) == who = "malicious" => s

\* One public input, in allocation order: the circuit field (or FFI
\* argument) it carries, its index in that field, and its value.
Input(name, index, value) == [name |-> name, index |-> index, value |-> value]

InputNames(v) == [i \in 1..Len(v) |-> <<v[i].name, v[i].index>>]

InputValues(v) == [i \in 1..Len(v) |-> v[i].value]

\* The value of the variable of an AllocatedBit: AllocatedBit::alloc
\* enforces (1 - a) * a = 0, so it is one or zero under every assignment.
BitValue(var) == IF var THEN Fr(1) ELSE Fr(0)

\* A variant of inputize_allocated_bit without "enforce input is correct".
inputize_allocated_bit_unbound(var, who) ==
    IF who = "honest" THEN {BitValue(var)} ELSE FrScalars

\* inputize_allocated_bit: the values of the public input it allocates.
\* The closure gives one for true and zero for false; another assignment
\* gives any scalar that "enforce input is correct" admits,
\* input * ONE = var.
inputize_allocated_bit(var, who) ==
    IF who = "honest" THEN {BitValue(var)}
    ELSE {input \in FrScalars : input = BitValue(var)}

\* The public inputs of the bits from the i-th on, one
\* inputize_allocated_bit call each.
RECURSIVE InputizeFrom(_, _, _)
InputizeFrom(bits, i, who) ==
    IF i > Len(bits) THEN {<<>>}
    ELSE {<<input>> \o rest : input \in inputize_allocated_bit(bits[i], who),
                              rest \in InputizeFrom(bits, i + 1, who)}

\* groth16::verify_proof under the verifying key of circuit c: the proof
\* was made for c from a satisfying assignment whose public inputs are v.
verify_proof(c, p, v) ==
    p.circuit = c /\ p.valid /\ p.pub = InputValues(v)

NoProof == [circuit |-> "none", valid |-> FALSE, pub |-> <<>>]

NoArgs == [commit_root |-> Fr(0)]

\* FFI boolean bytes other than 0.
NonZeroBytes == {1, 255}

\* A variant of BoolOfByte that takes only the byte 1 for true.
BoolOfByteOne(b) == b = 1

\* The prove side, "match b { 0 => Some(false), _ => Some(true) }".
BoolOfByte(b) == b # 0

\* The verify side, "match b { 0 => Fr::zero(), _ => Fr::one() }".
FrOfByte(b) == IF b = 0 THEN Fr(0) ELSE Fr(1)

\* The byte vectors that encode a boolean vector v, and those that encode v
\* with one entry flipped.
Encodings(v) == {[i \in 1..Len(v) |-> IF v[i] THEN b ELSE 0] : b \in NonZeroBytes}

Flipped(v) == {[i \in 1..Len(v) |-> IF (i = j) = v[i] THEN 0 ELSE 1] : j \in 1..Len(v)}

\* The byte a caller writes for true at position i of a vector: 255 at
\* the odd positions, 1 at the even ones.
TrueByte(i) == IF i % 2 = 1 THEN 255 ELSE 1

\* The byte vectors of length n a caller passes for a boolean vector.
ByteVectors(n) ==
    {[i \in 1..n |-> IF v[i] THEN TrueByte(i) ELSE 0] : v \in [1..n -> BOOLEAN]}

\* What unwrap() leaves of a call whose argument does not decode.
Panic == <<"panic">>

\* write_field_to_c_ptr: the HASH_SIZE little-endian bytes of into_repr(),
\* the integer below r for a scalar; the bytes of a digest stay symbolic.
write_field_to_c_ptr(fr) ==
    IF IsScalar(fr) THEN <<"repr", fr[2]>> ELSE <<"repr_of", fr>>

\* The bytes of the integer r: a representation that is not below r.
OverflowRepr == <<"repr", Modulus>>

\* A variant of read_field_from_c_ptr that reduces the integer modulo r.
read_field_from_c_ptr_reduced(ptr) ==
    IF ptr[1] = "repr_of" THEN ptr[2] ELSE Fr(ptr[2])

\* read_field_from_c_ptr: read_le, then Fr::from_repr(fr_repr).unwrap(),
\* which fails on an integer that is not below r.
read_field_from_c_ptr(ptr) ==
    IF ptr[1] = "repr_of" THEN ptr[2]
    ELSE IF ptr[2] < Modulus THEN Fr(ptr[2]) ELSE Panic

\* Bytes that groth16::Proof::read rejects.
MalformedProof == [circuit |-> "malformed", valid |-> FALSE, pub |-> <<>>]

\* The number of public inputs of a circuit; its verifying key has one ic
\* element more, and groth16::verify_proof fails with MalformedVerifyingKey
\* on an input vector of another length.
PublicInputs(c) ==
    CASE c = "PreTransfer" -> 4
      [] c = "Preparation" -> 4 + FRIENDS_MERKLE_DEPTH
      [] c = "Transfer" -> 1 + MAX_FRIENDS_LEN

\* The checks of a _verify_*_proof call before the pairing check: the
\* unwrap() of Proof::read, of VerifyingKey::read, of each from_repr and of
\* verify_proof's own result.
Unwraps(a_proof, a_vk, scalars, ins) ==
    /\ a_proof.circuit # "malformed"
    /\ a_vk # "malformed"
    /\ \A i \in 1..Len(scalars) : scalars[i] # Panic
    /\ Len(ins) = PublicInputs(a_vk)

\* What a caller may pass to a _verify_*_proof call instead of the
\* arguments a: one scalar that does not decode, a proof or a verifying key
\* that does not, or the verifying key of another circuit.
Undecodable(a, other_vk) ==
    {[a EXCEPT !.commit_root = OverflowRepr],
     [a EXCEPT !.proof = MalformedProof],
     [a EXCEPT !.vk = "malformed"],
     [a EXCEPT !.vk = other_vk]}

(***************************************************************************)
(* generate_*: the steps the three entry points share.                     *)
(***************************************************************************)
\* groth16::Parameters::read(...).unwrap()
ReadParams ==
    /\ pc = "entry"
    /\ pc' = "start"
    /\ UNCHANGED <<circuit, prover, inst, pub, w, sat, proof, proof_out_buf,
                   inputs, vargs, ret>>

\* groth16::create_random_proof(instance, ...).unwrap(): synthesize has
\* run; the prover does not check the constraints, so an unsatisfied
\* assignment still yields a proof, one no verifier accepts.
CreateProof ==
    /\ pc = "synthesized"
    /\ proof' = [circuit |-> circuit, valid |-> sat, pub |-> InputValues(pub)]
    /\ w' = <<>>
    /\ pc' = "proved"
    /\ UNCHANGED <<circuit, prover, inst, pub, sat, proof_out_buf, inputs, vargs, ret>>

\* A variant of WriteProof that writes only a proof that verifies.
WriteProofIfValid ==
    /\ pc = "proved"
    /\ proof_out_buf' = IF proof.valid THEN proof ELSE proof_out_buf
    /\ pc' = "written"
    /\ UNCHANGED <<circuit, prover, inst, pub, w, sat, proof, inputs, vargs, ret>>

\* proof.write(proof_out_buf).unwrap()
WriteProof ==
    /\ pc = "proved"
    /\ proof_out_buf' = proof
    /\ pc' = "written"
    /\ UNCHANGED <<circuit, prover, inst, pub, w, sat, proof, inputs, vargs, ret>>

(***************************************************************************)
(* TransferCircuit and its entry points.                                   *)
(***************************************************************************)
AddressValues == {Fr(0), Fr(1)}

PassphraseValues == {Fr(2)}

NonceValues == {Fr(3)}

TransferInstances ==
    {[commit_root |-> c, vlist_bytes |-> vb,
      vlist |-> [i \in 1..MAX_FRIENDS_LEN |-> BoolOfByte(vb[i])],
      addresses |-> a, passphrase |-> p, threshold |-> t, nonce |-> n] :
        c \in {"derived", "other"},
        vb \in ByteVectors(MAX_FRIENDS_LEN),
        a \in [1..MAX_FRIENDS_LEN -> AddressValues],
        p \in PassphraseValues, t \in FrScalars, n \in NonceValues}

InitTransfer ==
    /\ circuit = "Transfer"
    /\ prover \in Provers
    /\ \E i \in TransferInstances :
         inst = [i EXCEPT !.commit_root =
                    IF @ = "derived"
                    THEN TestCommitRoot(TestAddrRoot(i.addresses), i.passphrase,
                                        i.threshold, i.nonce)
                    ELSE Fr(0)]
    /\ pc = "entry"
    /\ pub = <<>>
    /\ w = <<>>
    /\ sat = TRUE
    /\ proof = NoProof
    /\ proof_out_buf = NoProof
    /\ inputs = <<>>
    /\ vargs = NoArgs
    /\ ret = -1

\* synthesize, the allocations: commit_root and the vlist bits are made
\* public in this order; addresses, passphrase, threshold, nonce are not.
TransferAlloc ==
    /\ circuit = "Transfer" /\ pc = "start"
    /\ \E vlist \in InputizeFrom(inst.vlist, 1, prover) :
          pub' = <<Input("commit_root", 0, inst.commit_root)>> \o
                 [i \in 1..Len(vlist) |-> Input("vlist", i - 1, vlist[i])]
    /\ pc' = "allocated"
    /\ UNCHANGED <<circuit, prover, inst, w, sat, proof, proof_out_buf, inputs,
                   vargs, ret>>

\* synthesize, "construct address root" and "check commit root".
TransferCommit ==
    /\ circuit = "Transfer" /\ pc = "allocated"
    /\ \E address_root \in bulid_merkle_tree(inst.addresses, prover) :
       \E t1 \in combine_hash(NoteCommitment, address_root, inst.passphrase, prover) :
       \E t \in combine_hash(NoteCommitment, t1, inst.threshold, prover) :
       \E computed_commit_root \in combine_hash(NoteCommitment, t, inst.nonce, prover) :
          /\ w' = [address_root |-> address_root, t |-> t,
                   computed_commit_root |-> computed_commit_root]
          /\ sat' = (sat /\ inst.commit_root = computed_commit_root)
          /\ Admitted(prover, sat')
    /\ pc' = "committed"
    /\ UNCHANGED <<circuit, prover, inst, pub, proof, proof_out_buf, inputs, vargs, ret>>

\* synthesize, "count addresses".
TransferCount ==
    /\ circuit = "Transfer" /\ pc = "committed"
    /\ \E c \in count_valid_addreses(inst.addresses, inst.vlist, prover) :
          w' = [valid_addr_cnt |-> c] @@ w
    /\ pc' = "counted"
    /\ UNCHANGED <<circuit, prover, inst, pub, sat, proof, proof_out_buf, inputs,
                   vargs, ret>>

\* synthesize, "check address cnt" and "valid address cnt should be enough".
TransferCheck ==
    /\ circuit = "Transfer" /\ pc = "counted"
    /\ \E e \in check_address_cnt(w.valid_addr_cnt.result, inst.threshold, prover) :
          /\ w' = [enough_valid_addr |-> e] @@ w
          /\ sat' = (sat /\ e.result = TRUE)
          /\ Admitted(prover, sat')
    /\ pc' = "synthesized"
    /\ UNCHANGED <<circuit, prover, inst, pub, proof, proof_out_buf, inputs, vargs, ret>>

\* _generate_transfer_proof, "check proof validity".
TransferGenInputs(commit_root, vlist) ==
    <<Input("commit_root", 0, commit_root)>> \o
    [i \in 1..Len(vlist) |-> Input("vlist", i - 1, IF vlist[i] THEN Fr(1) ELSE Fr(0))]

\* A variant of TransferSelfVerify without the assertion.
TransferSelfVerifyNoAssert ==
    /\ circuit = "Transfer" /\ pc = "written"
    /\ inputs' = TransferGenInputs(inst.commit_root, inst.vlist)
    /\ pc' = "returned"
    /\ UNCHANGED <<circuit, prover, inst, pub, w, sat, proof, proof_out_buf, vargs, ret>>

TransferSelfVerify ==
    /\ circuit = "Transfer" /\ pc = "written"
    /\ inputs' = TransferGenInputs(inst.commit_root, inst.vlist)
    /\ pc' = IF verify_proof("Transfer", proof, inputs') THEN "returned" ELSE "aborted"
    /\ UNCHANGED <<circuit, prover, inst, pub, w, sat, proof, proof_out_buf, vargs, ret>>

\* A variant of TransferVerifyInputs that pushes commit_root last.
TransferVerifyInputsRootLast(commit_root, vlist) ==
    [i \in 1..Len(vlist) |-> Input("vlist", i - 1, FrOfByte(vlist[i]))]
    \o <<Input("commit_root", 0, commit_root)>>

\* _verify_transfer_proof: the input vector from the verifier's arguments.
TransferVerifyInputs(commit_root, vlist) ==
    <<Input("commit_root", 0, commit_root)>> \o
    [i \in 1..Len(vlist) |-> Input("vlist", i - 1, FrOfByte(vlist[i]))]

\* What a verifier may pass to _verify_transfer_proof for the proof of inst:
\* the public values of inst, or these with one entry of vlist flipped, or
\* with another commit_root, or with an argument that does not decode.
TransferVerifierArgs ==
    LET a == [commit_root |-> write_field_to_c_ptr(inst.commit_root),
              vlist |-> [i \in 1..Len(inst.vlist) |-> IF inst.vlist[i] THEN 1 ELSE 0],
              proof |-> proof_out_buf, vk |-> "Transfer"]
    IN  {[a EXCEPT !.vlist = v] : v \in Encodings(inst.vlist) \cup Flipped(inst.vlist)}
        \cup {[a EXCEPT !.commit_root = write_field_to_c_ptr(Fr(0)), !.vlist = v] :
                  v \in Encodings(inst.vlist)}
        \cup Undecodable(a, "PreTransfer")

VerifyTransfer ==
    /\ circuit = "Transfer" /\ pc = "returned"
    /\ \E a \in TransferVerifierArgs :
          LET commit_root == read_field_from_c_ptr(a.commit_root)
              ins == TransferVerifyInputs(commit_root, a.vlist)
          IN  /\ vargs' = a
              /\ IF Unwraps(a.proof, a.vk, <<commit_root>>, ins)
                 THEN /\ inputs' = ins
                      /\ ret' = IF verify_proof(a.vk, a.proof, ins) THEN 1 ELSE 0
                      /\ pc' = "verified"
                 ELSE /\ pc' = "verify_aborted"
                      /\ UNCHANGED <<inputs, ret>>
    /\ UNCHANGED <<circuit, prover, inst, pub, w, sat, proof, proof_out_buf>>

NextTransfer ==
    \/ ReadParams
    \/ TransferAlloc
    \/ TransferCommit
    \/ TransferCount
    \/ TransferCheck
    \/ CreateProof
    \/ WriteProof
    \/ TransferSelfVerify
    \/ VerifyTransfer

SpecTransfer == InitTransfer /\ [][NextTransfer]_vars

(***************************************************************************)
(* PreTransferCircuit, _generate_pre_transfer_proof and                    *)
(* _verify_pre_transfer_proof.                                             *)
(***************************************************************************)
ThresholdValues == {Fr(1), Fr(2)}

NewAddressValues == {Fr(0), Fr(3)}

\* The roots a caller may pass to _generate_pre_transfer_proof for an
\* opening: a root of the ladder over the opening (under any decomposition
\* of its last operand), a root of the ladder over another passphrase, or
\* an unrelated scalar.
RootCandidates(addresses, passphrase, threshold, last) ==
    combine_hash(NoteCommitment,
                 TestPrefix(TestAddrRoot(addresses), passphrase, threshold),
                 last, "malicious")
    \cup {TestCommitRoot(TestAddrRoot(addresses), FrAdd(passphrase, Fr(1)),
                         threshold, last),
          Fr(0)}

PreTransferInstances ==
    UNION {
      {[commit_root |-> c, commit_root_t |-> ct, addresses |-> a,
        passphrase |-> p, threshold |-> t, address_new |-> an, nonce |-> n] :
          c \in RootCandidates(a, p, t, n), ct \in RootCandidates(a, p, t, an)} :
      a \in [1..MAX_FRIENDS_LEN -> AddressValues], p \in PassphraseValues,
      t \in ThresholdValues, an \in NewAddressValues, n \in NewAddressValues}

InitPreTransfer ==
    /\ circuit = "PreTransfer"
    /\ prover \in Provers
    /\ inst \in PreTransferInstances
    /\ pc = "entry"
    /\ pub = <<>>
    /\ w = <<>>
    /\ sat = TRUE
    /\ proof = NoProof
    /\ proof_out_buf = NoProof
    /\ inputs = <<>>
    /\ vargs = NoArgs
    /\ ret = -1

\* synthesize, the allocations: commit_root, commit_root_t, address_new and
\* nonce are made public, in the order of their inputize calls.
PreTransferAlloc ==
    /\ circuit = "PreTransfer" /\ pc = "start"
    /\ pub' = <<Input("commit_root", 0, inst.commit_root),
                Input("commit_root_t", 0, inst.commit_root_t),
                Input("address_new", 0, inst.address_new),
                Input("nonce", 0, inst.nonce)>>
    /\ pc' = "allocated"
    /\ UNCHANGED <<circuit, prover, inst, w, sat, proof, proof_out_buf, inputs,
                   vargs, ret>>

\* synthesize, "construct address root" and "check cr and cr_t": t is
\* computed once and hashed with nonce and with address_new, each
\* combine_hash decomposing its operands anew.
PreTransferCommit ==
    /\ circuit = "PreTransfer" /\ pc = "allocated"
    /\ \E address_root \in bulid_merkle_tree(inst.addresses, prover) :
       \E t1 \in combine_hash(NoteCommitment, address_root, inst.passphrase, prover) :
       \E t \in combine_hash(NoteCommitment, t1, inst.threshold, prover) :
       \E computed_commit_root \in combine_hash(NoteCommitment, t, inst.nonce, prover) :
       \E computed_commit_root_t \in
              combine_hash(NoteCommitment, t, inst.address_new, prover) :
          /\ w' = [address_root |-> address_root, t |-> t,
                   computed_commit_root |-> computed_commit_root,
                   computed_commit_root_t |-> computed_commit_root_t]
          /\ sat' = (/\ sat
                     /\ inst.commit_root = computed_commit_root
                     /\ inst.commit_root_t = computed_commit_root_t)
          /\ Admitted(prover, sat')
    /\ pc' = "synthesized"
    /\ UNCHANGED <<circuit, prover, inst, pub, proof, proof_out_buf, inputs, vargs, ret>>

\* A variant of PreTransferInputs that pushes nonce before address_new.
PreTransferInputsNonceFirst(commit_root, commit_root_t, address_new, nonce) ==
    <<Input("commit_root", 0, commit_root),
      Input("commit_root_t", 0, commit_root_t),
      Input("nonce", 0, nonce),
      Input("address_new", 0, address_new)>>

\* The input vector of both _generate_pre_transfer_proof ("check proof
\* validity") and _verify_pre_transfer_proof.
PreTransferInputs(commit_root, commit_root_t, address_new, nonce) ==
    <<Input("commit_root", 0, commit_root),
      Input("commit_root_t", 0, commit_root_t),
      Input("address_new", 0, address_new),
      Input("nonce", 0, nonce)>>

PreTransferSelfVerify ==
    /\ circuit = "PreTransfer" /\ pc = "written"
    /\ inputs' = PreTransferInputs(inst.commit_root, inst.commit_root_t,
                                   inst.address_new, inst.nonce)
    /\ pc' = IF verify_proof("PreTransfer", proof, inputs') THEN "returned" ELSE "aborted"
    /\ UNCHANGED <<circuit, prover, inst, pub, w, sat, proof, proof_out_buf, vargs, ret>>

\* What a verifier may pass to _verify_pre_transfer_proof for the proof of
\* inst: the public values of inst, or these with the two roots exchanged,
\* or with address_new and nonce exchanged, or with an argument that does
\* not decode.
PreTransferVerifierArgs ==
    LET a == [commit_root |-> write_field_to_c_ptr(inst.commit_root),
              commit_root_t |-> write_field_to_c_ptr(inst.commit_root_t),
              address_new |-> write_field_to_c_ptr(inst.address_new),
              nonce |-> write_field_to_c_ptr(inst.nonce),
              proof |-> proof_out_buf, vk |-> "PreTransfer"]
    IN  {a,
         [a EXCEPT !.commit_root = a.commit_root_t, !.commit_root_t = a.commit_root],
         [a EXCEPT !.address_new = a.nonce, !.nonce = a.address_new],
         [a EXCEPT !.nonce = OverflowRepr]}
        \cup Undecodable(a, "Transfer")

VerifyPreTransfer ==
    /\ circuit = "PreTransfer" /\ pc = "returned"
    /\ \E a \in PreTransferVerifierArgs :
          LET commit_root == read_field_from_c_ptr(a.commit_root)
              commit_root_t == read_field_from_c_ptr(a.commit_root_t)
              address_new == read_field_from_c_ptr(a.address_new)
              nonce == read_field_from_c_ptr(a.nonce)
              ins == PreTransferInputs(commit_root, commit_root_t, address_new, nonce)
          IN  /\ vargs' = a
              /\ IF Unwraps(a.proof, a.vk,
                            <<commit_root, commit_root_t, address_new, nonce>>, ins)
                 THEN /\ inputs' = ins
                      /\ ret' = IF verify_proof(a.vk, a.proof, ins) THEN 1 ELSE 0
                      /\ pc' = "verified"
                 ELSE /\ pc' = "verify_aborted"
                      /\ UNCHANGED <<inputs, ret>>
    /\ UNCHANGED <<circuit, prover, inst, pub, w, sat, proof, proof_out_buf>>

NextPreTransfer ==
    \/ ReadParams
    \/ PreTransferAlloc
    \/ PreTransferCommit
    \/ CreateProof
    \/ WriteProof
    \/ PreTransferSelfVerify
    \/ VerifyPreTransfer

SpecPreTransfer == InitPreTransfer /\ [][NextPreTransfer]_vars

(***************************************************************************)
(* PreparationCircuit, _generate_preparation_proof and                     *)
(* _verify_preparation_proof.                                              *)
(***************************************************************************)
IndexValues == {Fr(1)}

VerificationNonceValues == {Fr(2)}

\* What a caller may pass as verification, beside the well-formed token.
OtherVerification == Fr(4)

\* The sibling digests of the verification path.
PathDigest == Fr(5)

\* What a caller may pass as verification_root, beside the root of the path.
OtherRoot == Fr(6)

\* A call of _generate_preparation_proof for the friend at 0-based position
\* pos of an opening: the friend with its authentic sibling path, a
\* commit_root over the opening or an unrelated one, a verification that is
\* the well-formed token or not, and a verification_root that is the root
\* of the verification path or not.  The directions are passed as bytes.
PreparationInstance(a, pos, c, p, t, n, pti, vn, v, vd, vr) ==
    LET friend == a[pos + 1]
        fp     == AuthPath(a, pos)
        fdb    == [i \in 1..Len(fp) |-> IF fp[i][2] THEN TrueByte(i) ELSE 0]
        vdb    == [i \in 1..Len(vd) |-> IF vd[i] THEN TrueByte(i + 1) ELSE 0]
        ver    == IF v = "token" THEN TestVerification(pti, friend, vn, FrAdd(vn, Fr(1)))
                  ELSE OtherVerification
        vp     == [i \in 1..VERIFICATION_MERKLE_DEPTH |-> <<PathDigest, vd[i]>>]
    IN  [commit_root |-> IF c = "derived"
                         THEN TestCommitRoot(TestAddrRoot(a), p, t, n) ELSE Fr(0),
         addresses |-> a,
         friend_address |-> friend,
         friend_path |-> [i \in 1..Len(fp) |-> fp[i][1]],
         friend_directions_bytes |-> fdb,
         friend_directions |-> [i \in 1..Len(fdb) |-> BoolOfByte(fdb[i])],
         passphrase |-> p, threshold |-> t, nonce |-> n,
         verification |-> ver,
         pre_transfer_index |-> pti,
         verification_nonce1 |-> vn, verification_nonce2 |-> FrAdd(vn, Fr(1)),
         verification_root |-> IF vr = "root" THEN TestMerkleRoot(ver, vp) ELSE OtherRoot,
         verification_path |-> [i \in 1..VERIFICATION_MERKLE_DEPTH |-> PathDigest],
         verification_directions_bytes |-> vdb,
         verification_directions |-> [i \in 1..Len(vdb) |-> BoolOfByte(vdb[i])]]

PreparationInstances ==
    {PreparationInstance(a, pos, c, p, t, n, pti, vn, v, vd, vr) :
        a \in [1..MAX_FRIENDS_LEN -> AddressValues],
        pos \in 0..(MAX_FRIENDS_LEN - 1),
        c \in {"derived", "other"},
        p \in PassphraseValues, t \in ThresholdValues, n \in NonceValues,
        pti \in IndexValues, vn \in VerificationNonceValues,
        v \in {"token", "other"},
        vd \in [1..VERIFICATION_MERKLE_DEPTH -> BOOLEAN],
        vr \in {"root", "other"}}

InitPreparation ==
    /\ circuit = "Preparation"
    /\ prover \in Provers
    /\ inst \in PreparationInstances
    /\ pc = "entry"
    /\ pub = <<>>
    /\ w = <<>>
    /\ sat = TRUE
    /\ proof = NoProof
    /\ proof_out_buf = NoProof
    /\ inputs = <<>>
    /\ vargs = NoArgs
    /\ ret = -1

\* synthesize, the allocations: commit_root, each friend direction, nonce,
\* pre_transfer_index and verification_root are made public, in the order of
\* their inputize calls; the verification directions are only allocated.
PreparationAlloc ==
    /\ circuit = "Preparation" /\ pc = "start"
    /\ \E friend_directions \in InputizeFrom(inst.friend_directions, 1, prover) :
          pub' = <<Input("commit_root", 0, inst.commit_root)>> \o
                 [i \in 1..Len(friend_directions) |->
                     Input("friend_directions", i - 1, friend_directions[i])] \o
                 <<Input("nonce", 0, inst.nonce),
                   Input("pre_transfer_index", 0, inst.pre_transfer_index),
                   Input("verification_root", 0, inst.verification_root)>>
    /\ pc' = "allocated"
    /\ UNCHANGED <<circuit, prover, inst, w, sat, proof, proof_out_buf, inputs,
                   vargs, ret>>

\* synthesize, "check the friend lies with commit_root with the right index".
PreparationCommit ==
    /\ circuit = "Preparation" /\ pc = "allocated"
    /\ LET auth_path == [i \in 1..Len(inst.friend_path) |->
                            <<inst.friend_path[i], inst.friend_directions[i]>>]
       IN  \E address_root \in merkle_root_from_path(inst.friend_address, auth_path, prover) :
           \E t1 \in combine_hash(NoteCommitment, address_root, inst.passphrase, prover) :
           \E t \in combine_hash(NoteCommitment, t1, inst.threshold, prover) :
           \E computed_commit_root \in combine_hash(NoteCommitment, t, inst.nonce, prover) :
              /\ w' = [address_root |-> address_root, t |-> t,
                       computed_commit_root |-> computed_commit_root]
              /\ sat' = (sat /\ inst.commit_root = computed_commit_root)
              /\ Admitted(prover, sat')
    /\ pc' = "committed"
    /\ UNCHANGED <<circuit, prover, inst, pub, proof, proof_out_buf, inputs, vargs, ret>>

\* synthesize, from "check if friend_addr all zero" to "shouldn't fail".
PreparationCheck ==
    /\ circuit = "Preparation" /\ pc = "committed"
    /\ LET auth_path == [i \in 1..Len(inst.verification_path) |->
                            <<inst.verification_path[i], inst.verification_directions[i]>>]
       IN  \E verification_eq \in
                  UNION {fr_eq(computed_verification, inst.verification, prover) :
                           computed_verification \in
                               get_verification_from_parts(inst.pre_transfer_index,
                                   inst.friend_address, inst.verification_nonce1,
                                   inst.verification_nonce2, prover)} :
           \E verification_exists \in
                  UNION {fr_eq(computed_verification_root, inst.verification_root, prover) :
                           computed_verification_root \in
                               merkle_root_from_path(inst.verification, auth_path, prover)} :
           \E zero \in AllocZero(prover) :
           \E is_zero \in FrEq(inst.friend_address, zero, prover) :
              /\ w' = [zero |-> zero, addr_nonzero |-> ~is_zero,
                       verification_eq |-> verification_eq,
                       verification_exists |-> verification_exists,
                       fails |-> fails(~is_zero, verification_eq, verification_exists)]
                      @@ w
              /\ sat' = (sat /\ w'.fails = FALSE)
              /\ Admitted(prover, sat')
    /\ pc' = "synthesized"
    /\ UNCHANGED <<circuit, prover, inst, pub, proof, proof_out_buf, inputs, vargs, ret>>

\* _generate_preparation_proof, friend_directions_fr and "check proof validity".
PreparationGenInputs(commit_root, friend_directions, nonce, pre_transfer_index, verification_root) ==
    <<Input("commit_root", 0, commit_root)>> \o
    [i \in 1..Len(friend_directions) |->
        Input("friend_directions", i - 1, IF friend_directions[i] THEN Fr(1) ELSE Fr(0))] \o
    <<Input("nonce", 0, nonce),
      Input("pre_transfer_index", 0, pre_transfer_index),
      Input("verification_root", 0, verification_root)>>

PreparationSelfVerify ==
    /\ circuit = "Preparation" /\ pc = "written"
    /\ inputs' = PreparationGenInputs(inst.commit_root, inst.friend_directions,
                     inst.nonce, inst.pre_transfer_index, inst.verification_root)
    /\ pc' = IF verify_proof("Preparation", proof, inputs') THEN "returned" ELSE "aborted"
    /\ UNCHANGED <<circuit, prover, inst, pub, w, sat, proof, proof_out_buf, vargs, ret>>

\* A variant of PreparationVerifyInputs that pushes nonce after
\* pre_transfer_index.
PreparationVerifyInputsIndexFirst(commit_root, friend_directions, nonce, pre_transfer_index, verification_root) ==
    <<Input("commit_root", 0, commit_root)>> \o
    [i \in 1..Len(friend_directions) |->
        Input("friend_directions", i - 1,
              FrOfByte(friend_directions[i]))] \o
    <<Input("pre_transfer_index", 0, pre_transfer_index),
      Input("nonce", 0, nonce),
      Input("verification_root", 0, verification_root)>>

\* _verify_preparation_proof: the input vector from the verifier's
\* arguments, the directions given as bytes.
PreparationVerifyInputs(commit_root, friend_directions, nonce, pre_transfer_index, verification_root) ==
    <<Input("commit_root", 0, commit_root)>> \o
    [i \in 1..Len(friend_directions) |->
        Input("friend_directions", i - 1,
              FrOfByte(friend_directions[i]))] \o
    <<Input("nonce", 0, nonce),
      Input("pre_transfer_index", 0, pre_transfer_index),
      Input("verification_root", 0, verification_root)>>

\* What a verifier may pass to _verify_preparation_proof for the proof of
\* inst: the public values of inst, or these with one direction flipped, or
\* with the two roots exchanged, or with nonce and pre_transfer_index
\* exchanged, or with an argument that does not decode.
PreparationVerifierArgs ==
    LET a == [commit_root |-> write_field_to_c_ptr(inst.commit_root),
              friend_directions |->
                  [i \in 1..Len(inst.friend_directions) |->
                      IF inst.friend_directions[i] THEN 1 ELSE 0],
              nonce |-> write_field_to_c_ptr(inst.nonce),
              pre_transfer_index |-> write_field_to_c_ptr(inst.pre_transfer_index),
              verification_root |-> write_field_to_c_ptr(inst.verification_root),
              proof |-> proof_out_buf, vk |-> "Preparation"]
    IN  {[a EXCEPT !.friend_directions = fd] :
            fd \in Encodings(inst.friend_directions) \cup Flipped(inst.friend_directions)}
        \cup
        UNION {{[a EXCEPT !.friend_directions = fd,
                          !.commit_root = a.verification_root,
                          !.verification_root = a.commit_root],
                 [a EXCEPT !.friend_directions = fd,
                          !.nonce = a.pre_transfer_index,
                          !.pre_transfer_index = a.nonce]} :
                 fd \in Encodings(inst.friend_directions)}
        \cup {[a EXCEPT !.verification_root = OverflowRepr]}
        \cup Undecodable(a, "Transfer")

VerifyPreparation ==
    /\ circuit = "Preparation" /\ pc = "returned"
    /\ \E a \in PreparationVerifierArgs :
          LET commit_root == read_field_from_c_ptr(a.commit_root)
              nonce == read_field_from_c_ptr(a.nonce)
              pre_transfer_index == read_field_from_c_ptr(a.pre_transfer_index)
              verification_root == read_field_from_c_ptr(a.verification_root)
              ins == PreparationVerifyInputs(commit_root, a.friend_directions, nonce,
                                             pre_transfer_index, verification_root)
          IN  /\ vargs' = a
              /\ IF Unwraps(a.proof, a.vk,
                            <<commit_root, nonce, pre_transfer_index, verification_root>>,
                            ins)
                 THEN /\ inputs' = ins
                      /\ ret' = IF verify_proof(a.vk, a.proof, ins) THEN 1 ELSE 0
                      /\ pc' = "verified"
                 ELSE /\ pc' = "verify_aborted"
                      /\ UNCHANGED <<inputs, ret>>
    /\ UNCHANGED <<circuit, prover, inst, pub, w, sat, proof, proof_out_buf>>

NextPreparation ==
    \/ ReadParams
    \/ PreparationAlloc
    \/ PreparationCommit
    \/ PreparationCheck
    \/ CreateProof
    \/ WriteProof
    \/ PreparationSelfVerify
    \/ VerifyPreparation

SpecPreparation == InitPreparation /\ [][NextPreparation]_vars

(***************************************************************************)
(* The gadgets on their own: one call of check_address_cnt, of fr_eq or of *)
(* merkle_root_from_path on operands a caller may allocate, and the pair   *)
(* merkle_root_from_path / bulid_merkle_tree over one leaf vector, the     *)
(* pair on the values the closures compute.                                *)
(***************************************************************************)
\* Path lengths and tree depths of the calls (5 in the test of the source).
PathLengths == 0..(VERIFICATION_MERKLE_DEPTH + 1)

TreeDepths == 0..(FRIENDS_MERKLE_DEPTH + 1)

SiblingValues == {Fr(0), Fr(2)}

\* The (path_element, cur_is_right) vectors of a given length.
AuthPaths(len) == [1..len -> SiblingValues \X BOOLEAN]

GadgetCalls ==
    {[address_cnt |-> c, threshold |-> t] : c \in FrScalars, t \in FrScalars}
    \cup {[a |-> a, b |-> b] : a \in FrScalars, b \in FrScalars}
    \cup UNION {{[leaf |-> l, auth_path |-> p] : l \in AddressValues, p \in AuthPaths(len)} :
                  len \in PathLengths}
    \cup UNION {{[leaves |-> l, pos |-> p] :
                    l \in [1..Pow2(d) -> AddressValues], p \in 0..(Pow2(d) - 1)} :
                  d \in TreeDepths}

InitGadgets ==
    /\ inst \in GadgetCalls
    /\ circuit = IF "threshold" \in DOMAIN inst THEN "check_address_cnt"
                 ELSE IF "a" \in DOMAIN inst THEN "fr_eq"
                 ELSE IF "leaf" \in DOMAIN inst THEN "merkle_root_from_path"
                 ELSE "bulid_merkle_tree"
    /\ prover \in IF circuit = "bulid_merkle_tree" THEN {"honest"} ELSE Provers
    /\ pc = "call"
    /\ pub = <<>>
    /\ w = <<>>
    /\ sat = TRUE
    /\ proof = NoProof
    /\ proof_out_buf = NoProof
    /\ inputs = <<>>
    /\ vargs = NoArgs
    /\ ret = -1

\* check_address_cnt(address_cnt, threshold)
CallCheckAddressCnt ==
    /\ circuit = "check_address_cnt" /\ pc = "call"
    /\ \E e \in check_address_cnt(inst.address_cnt, inst.threshold, prover) : w' = e
    /\ pc' = "done"
    /\ UNCHANGED <<circuit, prover, inst, pub, sat, proof, proof_out_buf, inputs,
                   vargs, ret>>

\* fr_eq(a, b)
CallFrEq ==
    /\ circuit = "fr_eq" /\ pc = "call"
    /\ \E result \in fr_eq(inst.a, inst.b, prover) : w' = [result |-> result]
    /\ pc' = "done"
    /\ UNCHANGED <<circuit, prover, inst, pub, sat, proof, proof_out_buf, inputs,
                   vargs, ret>>

\* merkle_root_from_path(leaf, auth_path), as in
\* tests::test_merkle_root_from_path.
CallMerkleRootFromPath ==
    /\ circuit = "merkle_root_from_path" /\ pc = "call"
    /\ \E hash_result \in merkle_root_from_path(inst.leaf, inst.auth_path, prover) :
          w' = [hash_result |-> hash_result]
    /\ pc' = "done"
    /\ UNCHANGED <<circuit, prover, inst, pub, sat, proof, proof_out_buf, inputs,
                   vargs, ret>>

\* bulid_merkle_tree(leaves), and merkle_root_from_path on the leaf at pos
\* with the sibling chain of pos.
CallBuildAndPath ==
    /\ circuit = "bulid_merkle_tree" /\ pc = "call"
    /\ \E address_root \in bulid_merkle_tree(inst.leaves, prover) :
       \E path_root \in merkle_root_from_path(inst.leaves[inst.pos + 1],
                                              AuthPath(inst.leaves, inst.pos), prover) :
          w' = [address_root |-> address_root, path_root |-> path_root]
    /\ pc' = "done"
    /\ UNCHANGED <<circuit, prover, inst, pub, sat, proof, proof_out_buf, inputs,
                   vargs, ret>>

NextGadgets ==
    \/ CallCheckAddressCnt
    \/ CallFrEq
    \/ CallMerkleRootFromPath
    \/ CallBuildAndPath

SpecGadgets == InitGadgets /\ [][NextGadgets]_vars

(***************************************************************************)
(* bulid_merkle_tree, one iteration of its while loop at a time, on a leaf *)
(* vector of any length.  level is a usize of USIZE_BITS bits (64 in the   *)
(* source).                                                                *)
(***************************************************************************)
USIZE_BITS == 3

\* The longest leaf vector of the runs.
MaxLeaves == 6

InitBuild ==
    /\ circuit = "bulid_merkle_tree_loop"
    /\ prover \in Provers
    /\ \E n \in 0..MaxLeaves : \E leaves \in [1..n -> AddressValues] :
          /\ inst = [leaves |-> leaves]
          /\ w = [cur |-> leaves, level |-> 0, hashes |-> 0]
    /\ pc = "while"
    /\ pub = <<>>
    /\ sat = TRUE
    /\ proof = NoProof
    /\ proof_out_buf = NoProof
    /\ inputs = <<>>
    /\ vargs = NoArgs
    /\ ret = -1

\* One iteration of "while cur.len() != 1": assert_eq!(prev.len() % 2, 0)
\* panics on an odd length; otherwise the for loop hashes the prev.len() / 2
\* adjacent pairs under MerkleTree(level), then "level += 1", which on
\* overflow panics in a build with overflow checks and wraps in one without.
BuildLevel ==
    /\ circuit = "bulid_merkle_tree_loop" /\ pc = "while"
    /\ Len(w.cur) # 1
    /\ IF Len(w.cur) % 2 # 0
       THEN pc' = "panicked" /\ w' = w
       ELSE \E cur \in HashPairs(w.cur, w.level, 1, prover) :
              IF w.level + 1 < Pow2(USIZE_BITS)
              THEN /\ w' = [cur |-> cur, level |-> w.level + 1,
                            hashes |-> w.hashes + Len(w.cur) \div 2]
                   /\ pc' = "while"
              ELSE \/ pc' = "panicked" /\ w' = [w EXCEPT !.cur = cur]
                   \/ /\ w' = [cur |-> cur, level |-> 0,
                               hashes |-> w.hashes + Len(w.cur) \div 2]
                      /\ pc' = "while"
    /\ UNCHANGED <<circuit, prover, inst, pub, sat, proof, proof_out_buf, inputs,
                   vargs, ret>>

\* Ok(cur[0].clone()) once cur.len() = 1.
BuildReturn ==
    /\ circuit = "bulid_merkle_tree_loop" /\ pc = "while"
    /\ Len(w.cur) = 1
    /\ w' = [root |-> w.cur[1]] @@ w
    /\ pc' = "returned"
    /\ UNCHANGED <<circuit, prover, inst, pub, sat, proof, proof_out_buf, inputs,
                   vargs, ret>>

NextBuild ==
    \/ BuildLevel
    \/ BuildReturn

\* The thread that runs the loop keeps running it.
SpecBuild == InitBuild /\ [][NextBuild]_vars /\ WF_vars(NextBuild)

(***************************************************************************)
(* _jubjub_hash, the hash a caller computes outside the circuits.          *)
(***************************************************************************)
\* The bits of <Fr as PrimeField>::Repr: four u64 limbs in the source, one
\* bit more than NUM_BITS.
REPR_BITS == NUM_BITS + 1

\* BitIterator::new(x.into_repr()): the bits of the integer, the most
\* significant first.
BitIterator(n) == [i \in 1..REPR_BITS |-> (n \div Pow2(REPR_BITS - i)) % 2 = 1]

\* .rev() on a vector.
Rev(s) == [i \in 1..Len(s) |-> s[Len(s) + 1 - i]]

\* A variant of jubjub_fr_to_bits_le that leaves out .rev().
jubjub_fr_to_bits_be(x) ==
    IF IsScalar(x) THEN <<"le", SubSeq(BitIterator(x[2]), 1, NUM_BITS)>>
    ELSE <<"le", x, 1>>

\* fr_to_bits_le of _jubjub_hash: BitIterator, collected, reversed, the
\* first NUM_BITS taken.
jubjub_fr_to_bits_le(x) ==
    IF IsScalar(x) THEN <<"le", SubSeq(Rev(BitIterator(x[2])), 1, NUM_BITS)>>
    ELSE <<"le", x, 0>>

\* "match personalization": -1 is NoteCommitment, x is MerkleTree(x as usize).
jubjub_personalization(personalization) ==
    IF personalization = -1 THEN NoteCommitment ELSE MerkleTree(personalization)

\* _jubjub_hash: what the call writes to out_ptr, or Panic when an operand
\* does not decode.
jubjub_hash(personalization, fr_ptr_a, fr_ptr_b) ==
    LET fr_a == read_field_from_c_ptr(fr_ptr_a)
        fr_b == read_field_from_c_ptr(fr_ptr_b)
    IN  IF fr_a = Panic \/ fr_b = Panic THEN Panic
        ELSE write_field_to_c_ptr(<<"ph", jubjub_personalization(personalization),
                                    jubjub_fr_to_bits_le(fr_a),
                                    jubjub_fr_to_bits_le(fr_b)>>)

\* The tags of the calls: -1, and the levels of the trees.
Tags == -1..FRIENDS_MERKLE_DEPTH

\* The operands of the calls: the scalars, the output of an earlier call,
\* and bytes that are not below r.
HashOperands ==
    {write_field_to_c_ptr(x) : x \in FrScalars}
    \cup {jubjub_hash(t, write_field_to_c_ptr(Fr(0)), write_field_to_c_ptr(Fr(1))) :
             t \in {-1, 0}}
    \cup {OverflowRepr}

InitHash ==
    /\ circuit = "_jubjub_hash"
    /\ prover = "honest"
    /\ \E t \in Tags : \E a \in HashOperands : \E b \in HashOperands :
          inst = [personalization |-> t, fr_ptr_a |-> a, fr_ptr_b |-> b]
    /\ pc = "call"
    /\ pub = <<>>
    /\ w = <<>>
    /\ sat = TRUE
    /\ proof = NoProof
    /\ proof_out_buf = NoProof
    /\ inputs = <<>>
    /\ vargs = NoArgs
    /\ ret = -1

\* One call of _jubjub_hash.
JubjubHash ==
    /\ circuit = "_jubjub_hash" /\ pc = "call"
    /\ LET out == jubjub_hash(inst.personalization, inst.fr_ptr_a, inst.fr_ptr_b)
       IN  IF out = Panic
           THEN pc' = "panicked" /\ w' = w
           ELSE pc' = "done" /\ w' = [out_ptr |-> out]
    /\ UNCHANGED <<circuit, prover, inst, pub, sat, proof, proof_out_buf, inputs,
                   vargs, ret>>

NextHash == JubjubHash

SpecHash == InitHash /\ [][NextHash]_vars

(***************************************************************************)
(* get_bls_params, called by several threads: `static mut BLS_PARAMS` and  *)
(* `static START: Once`.  Once::call_once runs the closure of the first    *)
(* caller, blocks a caller that arrives while it runs, and returns at once *)
(* when it has completed.                                                  *)
(***************************************************************************)
\* The number of threads that call get_bls_params.
NumThreads == 3

\* The number of calls each thread makes.
MaxCalls == 2

Threads == 1..NumThreads

\* 0 as *const JubjubBls12; the table of the n-th JubjubBls12::new() sits
\* in its own Box, at address n.
Null == 0

InitParams ==
    /\ circuit = "get_bls_params"
    /\ prover = "honest"
    /\ inst = [threads |-> NumThreads]
    /\ w = [BLS_PARAMS |-> Null, START |-> "INCOMPLETE", news |-> 0,
            tpc |-> [t \in Threads |-> "idle"],
            calls |-> [t \in Threads |-> 0],
            table |-> [t \in Threads |-> Null],
            ref |-> [t \in Threads |-> Null]]
    /\ pc = "threads"
    /\ pub = <<>>
    /\ sat = TRUE
    /\ proof = NoProof
    /\ proof_out_buf = NoProof
    /\ inputs = <<>>
    /\ vargs = NoArgs
    /\ ret = -1

\* A thread enters get_bls_params and reaches START.call_once(...).
ParamsCall ==
    /\ circuit = "get_bls_params"
    /\ \E t \in Threads :
          /\ w.tpc[t] \in {"idle", "returned"}
          /\ w.calls[t] < MaxCalls
          /\ w' = [w EXCEPT !.tpc[t] = "call_once", !.calls[t] = @ + 1]
    /\ UNCHANGED <<circuit, prover, inst, pc, pub, sat, proof, proof_out_buf,
                   inputs, vargs, ret>>

\* A variant of OnceCompleted that also goes on while the closure of
\* another thread is still running.
OnceCompletedOrRunning ==
    /\ circuit = "get_bls_params"
    /\ \E t \in Threads :
          /\ w.tpc[t] = "call_once"
          /\ w.START # "INCOMPLETE"
          /\ w' = [w EXCEPT !.tpc[t] = "deref"]
    /\ UNCHANGED <<circuit, prover, inst, pc, pub, sat, proof, proof_out_buf,
                   inputs, vargs, ret>>

\* call_once on a Once that has completed: returns without running the
\* closure.  On a Once that is running the caller stays blocked here.
OnceCompleted ==
    /\ circuit = "get_bls_params"
    /\ \E t \in Threads :
          /\ w.tpc[t] = "call_once"
          /\ w.START = "COMPLETE"
          /\ w' = [w EXCEPT !.tpc[t] = "deref"]
    /\ UNCHANGED <<circuit, prover, inst, pc, pub, sat, proof, proof_out_buf,
                   inputs, vargs, ret>>

\* call_once on a Once no caller has claimed: this caller runs the closure.
OnceClaim ==
    /\ circuit = "get_bls_params"
    /\ \E t \in Threads :
          /\ w.tpc[t] = "call_once"
          /\ w.START = "INCOMPLETE"
          /\ w' = [w EXCEPT !.START = "RUNNING", !.tpc[t] = "new"]
    /\ UNCHANGED <<circuit, prover, inst, pc, pub, sat, proof, proof_out_buf,
                   inputs, vargs, ret>>

\* The closure: Box::new(JubjubBls12::new()).
ClosureNew ==
    /\ circuit = "get_bls_params"
    /\ \E t \in Threads :
          /\ w.tpc[t] = "new"
          /\ w' = [w EXCEPT !.news = @ + 1, !.table[t] = w.news + 1,
                            !.tpc[t] = "store"]
    /\ UNCHANGED <<circuit, prover, inst, pc, pub, sat, proof, proof_out_buf,
                   inputs, vargs, ret>>

\* The closure: BLS_PARAMS = Box::into_raw(...).
ClosureStore ==
    /\ circuit = "get_bls_params"
    /\ \E t \in Threads :
          /\ w.tpc[t] = "store"
          /\ w' = [w EXCEPT !.BLS_PARAMS = w.table[t], !.tpc[t] = "complete"]
    /\ UNCHANGED <<circuit, prover, inst, pc, pub, sat, proof, proof_out_buf,
                   inputs, vargs, ret>>

\* call_once after the closure has returned: the Once completes and the
\* blocked callers wake.
OnceComplete ==
    /\ circuit = "get_bls_params"
    /\ \E t \in Threads :
          /\ w.tpc[t] = "complete"
          /\ w' = [w EXCEPT !.START = "COMPLETE", !.tpc[t] = "deref"]
    /\ UNCHANGED <<circuit, prover, inst, pc, pub, sat, proof, proof_out_buf,
                   inputs, vargs, ret>>

\* unsafe { &*BLS_PARAMS }: the reference the call returns.  On a null
\* pointer the behaviour is undefined: the thread faults, or goes on with a
\* reference to address 0.
ParamsDeref ==
    /\ circuit = "get_bls_params"
    /\ \E t \in Threads :
          /\ w.tpc[t] = "deref"
          /\ \/ w' = [w EXCEPT !.ref[t] = w.BLS_PARAMS, !.tpc[t] = "returned"]
             \/ /\ w.BLS_PARAMS = Null
                /\ w' = [w EXCEPT !.tpc[t] = "faulted"]
    /\ UNCHANGED <<circuit, prover, inst, pc, pub, sat, proof, proof_out_buf,
                   inputs, vargs, ret>>

NextParams ==
    \/ ParamsCall
    \/ OnceCompleted
    \/ OnceClaim
    \/ ClosureNew
    \/ ClosureStore
    \/ OnceComplete
    \/ ParamsDeref

SpecParams == InitParams /\ [][NextParams]_vars

(***************************************************************************)
(* The three circuits, the gadgets and _jubjub_hash together.              *)
(***************************************************************************)
Init ==
    \/ InitPreTransfer
    \/ InitPreparation
    \/ InitTransfer
    \/ InitGadgets
    \/ InitBuild
    \/ InitHash

Next ==
    \/ NextPreTransfer
    \/ NextPreparation
    \/ NextTransfer
    \/ NextGadgets
    \/ NextBuild
    \/ NextHash

Spec == Init /\ [][Next]_vars

(***************************************************************************)
(* Claims about TransferCircuit.                                           *)
(***************************************************************************)
\* |{i : vlist[i] and addresses[i] != 0}| of an instance.
ApprovedFriends(i) ==
    Cardinality({k \in 1..Len(i.vlist) : i.vlist[k] /\ i.addresses[k] # Fr(0)})

\* c = threshold + k in the field for some k in 0..MAX_FRIENDS_LEN-1.
InWindow(c, threshold) ==
    \E k \in 0..(MAX_FRIENDS_LEN - 1) : c = FrAdd(threshold, Fr(k))

TransferSynthesized == circuit = "Transfer" /\ pc = "synthesized"

\* C1: every assignment that satisfies all constraints of TransferCircuit,
\* with a threshold in 0..MAX_FRIENDS_LEN, has at least threshold (and at
\* most threshold + MAX_FRIENDS_LEN - 1) indices i with vlist[i] = 1 and
\* addresses[i] != 0.
C1_ThresholdCheckSound ==
    (TransferSynthesized /\ sat /\ inst.threshold[2] <= MAX_FRIENDS_LEN) =>
        /\ inst.threshold[2] <= ApprovedFriends(inst)
        /\ ApprovedFriends(inst) <= inst.threshold[2] + MAX_FRIENDS_LEN - 1

\* C1 restricted to the assignment the closures of the source compute.
C1_HonestThresholdCheck ==
    (TransferSynthesized /\ sat /\ prover = "honest"
        /\ inst.threshold[2] <= MAX_FRIENDS_LEN) =>
        /\ inst.threshold[2] <= ApprovedFriends(inst)
        /\ ApprovedFriends(inst) <= inst.threshold[2] + MAX_FRIENDS_LEN - 1

\* C1 failing state: all constraints of TransferCircuit are satisfied although
\* fewer than threshold slots are approved and non-empty.
C1_FailingState ==
    /\ TransferSynthesized /\ sat
    /\ inst.threshold[2] <= MAX_FRIENDS_LEN
    /\ ApprovedFriends(inst) < inst.threshold[2]

TransferOrder ==
    <<<<"commit_root", 0>>>> \o [i \in 1..MAX_FRIENDS_LEN |-> <<"vlist", i - 1>>]

\* C8: TransferCircuit allocates exactly 1 + MAX_FRIENDS_LEN public inputs,
\* in the order commit_root, vlist[0], ..., and both the self-verification
\* of _generate_transfer_proof and _verify_transfer_proof build their input
\* vector in that order: a proof is accepted exactly under the arguments
\* that encode its public values in these positions.
C8_TransferInputOrder ==
    circuit = "Transfer" =>
        /\ pc \notin {"entry", "start"} =>
              /\ InputNames(pub) = TransferOrder
              /\ Len(pub) = 1 + MAX_FRIENDS_LEN
        /\ pc \in {"returned", "aborted"} =>
              /\ InputNames(inputs) = TransferOrder
              /\ InputValues(inputs) = InputValues(pub)
        /\ pc = "verified" =>
              /\ InputNames(inputs) = TransferOrder
              /\ ret = 1 <=>
                    /\ read_field_from_c_ptr(vargs.commit_root) = inst.commit_root
                    /\ \A i \in 1..MAX_FRIENDS_LEN : (vargs.vlist[i] # 0) = inst.vlist[i]

\* C8 witness: a proof whose approval bitmap is neither all false nor all
\* true has been verified and accepted.
C8_Witness ==
    /\ circuit = "Transfer" /\ pc = "verified" /\ ret = 1
    /\ inst.vlist[1] /\ ~inst.vlist[MAX_FRIENDS_LEN]

\* C9: the value count_valid_addreses returns is the number of slots with
\* vlist[i] true and addresses[i] != 0 (a zero address or a false vlist[i]
\* contributes nothing), and under every assignment the result equals the
\* sum of the re-allocated validity bits, each equal to is_addr_valid[i], so
\* it lies in 0..MAX_FRIENDS_LEN.
C9_CountValidAddresses ==
    (circuit = "Transfer" /\ pc \in {"counted", "synthesized"}) =>
        LET c == w.valid_addr_cnt
        IN  /\ c.result = Fr(CountTrue(c.valid_bit))
            /\ c.result[2] \in 0..MAX_FRIENDS_LEN
            /\ \A i \in 1..MAX_FRIENDS_LEN :
                  /\ c.valid_bit[i] = c.is_addr_valid[i]
                  /\ c.is_addr_valid[i] = (inst.vlist[i] /\ c.is_addr_not_null[i])
                  /\ ~inst.vlist[i] => ~c.valid_bit[i]
            /\ prover = "honest" =>
                  /\ c.result = Fr(ApprovedFriends(inst))
                  /\ \A i \in 1..MAX_FRIENDS_LEN :
                        inst.addresses[i] = Fr(0) => ~c.valid_bit[i]

\* C9 witness: the count has been taken of an instance with an approved
\* empty slot and an approved non-empty one.
C9_Witness ==
    /\ circuit = "Transfer" /\ pc = "counted" /\ prover = "honest"
    /\ \E i, j \in 1..MAX_FRIENDS_LEN :
          /\ inst.vlist[i] /\ inst.addresses[i] = Fr(0)
          /\ inst.vlist[j] /\ inst.addresses[j] # Fr(0)
    /\ w.valid_addr_cnt.result = Fr(1)

\* C10: check_address_cnt returns true iff count = threshold + k in the
\* field for some k in 0..MAX_FRIENDS_LEN-1; every offset value equals
\* threshold + k, and the result is the OR of the comparisons (under any
\* assignment a true result implies that count is in the window).
C10_CheckAddressCnt ==
    TransferSynthesized =>
        LET e == w.enough_valid_addr
            c == w.valid_addr_cnt.result
        IN  /\ \A k \in 0..(MAX_FRIENDS_LEN - 1) :
                  e.aboves[k] = FrAdd(inst.threshold, Fr(k))
            /\ e.result = (\E k \in 0..(MAX_FRIENDS_LEN - 1) : ~e.not_eqs[k])
            /\ e.result => InWindow(c, inst.threshold)
            /\ prover = "honest" => (e.result <=> InWindow(c, inst.threshold))

\* C10 witness: the check has returned true for the largest offset.
C10_Witness ==
    /\ TransferSynthesized /\ prover = "honest"
    /\ w.enough_valid_addr.result
    /\ w.valid_addr_cnt.result = FrAdd(inst.threshold, Fr(MAX_FRIENDS_LEN - 1))

(***************************************************************************)
(* Claims about PreTransferCircuit.                                        *)
(***************************************************************************)
PreTransferSynthesized == circuit = "PreTransfer" /\ pc = "synthesized"

\* C2: every satisfying assignment of PreTransferCircuit derives both
\* public roots from one prefix T of the opening: whenever nonce =
\* address_new the two roots are equal, and a commit_root_t built over
\* another prefix than commit_root is not accepted.
C2_RootsFromSamePrefix ==
    (PreTransferSynthesized /\ sat) =>
        /\ inst.nonce = inst.address_new => inst.commit_root = inst.commit_root_t
        /\ inst.commit_root_t #
              TestCommitRoot(TestAddrRoot(inst.addresses),
                             FrAdd(inst.passphrase, Fr(1)), inst.threshold,
                             inst.address_new)

\* C2 restricted to the assignment the closures of the source compute.
C2_HonestRootsFromSamePrefix ==
    (PreTransferSynthesized /\ sat /\ prover = "honest") =>
        /\ inst.commit_root =
              TestCommitRoot(TestAddrRoot(inst.addresses), inst.passphrase,
                             inst.threshold, inst.nonce)
        /\ inst.commit_root_t =
              TestCommitRoot(TestAddrRoot(inst.addresses), inst.passphrase,
                             inst.threshold, inst.address_new)
        /\ inst.nonce = inst.address_new => inst.commit_root = inst.commit_root_t

\* C2 failing state: all constraints of PreTransferCircuit are satisfied with
\* nonce = address_new and two different roots.
C2_FailingState ==
    /\ PreTransferSynthesized /\ sat
    /\ inst.nonce = inst.address_new
    /\ inst.commit_root # inst.commit_root_t

PreTransferOrder ==
    <<<<"commit_root", 0>>, <<"commit_root_t", 0>>, <<"address_new", 0>>,
      <<"nonce", 0>>>>

\* C6: PreTransferCircuit allocates exactly four public inputs, in the
\* order commit_root, commit_root_t, address_new, nonce, and both the
\* self-verification of _generate_pre_transfer_proof and
\* _verify_pre_transfer_proof build their input vector in that order: a
\* proof is accepted exactly under the arguments that carry its public
\* values in these positions.
C6_PreTransferInputOrder ==
    circuit = "PreTransfer" =>
        /\ pc \notin {"entry", "start"} =>
              /\ InputNames(pub) = PreTransferOrder
              /\ Len(pub) = 4
        /\ pc \in {"returned", "aborted"} =>
              /\ InputNames(inputs) = PreTransferOrder
              /\ InputValues(inputs) = InputValues(pub)
        /\ pc = "verified" =>
              /\ InputNames(inputs) = PreTransferOrder
              /\ ret = 1 <=>
                    /\ read_field_from_c_ptr(vargs.commit_root) = inst.commit_root
                    /\ read_field_from_c_ptr(vargs.commit_root_t) = inst.commit_root_t
                    /\ read_field_from_c_ptr(vargs.address_new) = inst.address_new
                    /\ read_field_from_c_ptr(vargs.nonce) = inst.nonce

\* C6 witness: a proof whose two roots differ and whose address_new differs
\* from its nonce has been verified and accepted.
C6_Witness ==
    /\ circuit = "PreTransfer" /\ pc = "verified" /\ ret = 1
    /\ inst.commit_root # inst.commit_root_t
    /\ inst.address_new # inst.nonce

(***************************************************************************)
(* Claims about PreparationCircuit.                                        *)
(***************************************************************************)
PreparationSynthesized == circuit = "Preparation" /\ pc = "synthesized"

\* The verification of an instance is the token of its pre_transfer_index,
\* nonces and friend.
WellFormed(i) ==
    i.verification =
        TestVerification(i.pre_transfer_index, i.friend_address,
                         i.verification_nonce1, i.verification_nonce2)

\* The verification of an instance lies under its verification_root.
InTree(i) ==
    TestMerkleRoot(i.verification,
                   [k \in 1..Len(i.verification_path) |->
                       <<i.verification_path[k], i.verification_directions[k]>>])
        = i.verification_root

\* The friend of an instance lies under its commit_root.
CommitRootHolds(i) ==
    i.commit_root =
        TestCommitRoot(
            TestMerkleRoot(i.friend_address,
                           [k \in 1..Len(i.friend_path) |->
                               <<i.friend_path[k], i.friend_directions[k]>>]),
            i.passphrase, i.threshold, i.nonce)

\* C3: every satisfying assignment of PreparationCircuit with
\* friend_address != 0 has a verification that is the well-formed token and
\* that lies in the tree under verification_root.
C3_NonEmptySlotVerified ==
    (PreparationSynthesized /\ sat /\ inst.friend_address # Fr(0)) =>
        WellFormed(inst) /\ InTree(inst)

\* C3 restricted to the assignment the closures of the source compute.
C3_HonestNonEmptySlotVerified ==
    (PreparationSynthesized /\ prover = "honest" /\ inst.friend_address # Fr(0)) =>
        (sat <=> (CommitRootHolds(inst) /\ WellFormed(inst) /\ InTree(inst)))

\* C3 failing state: all constraints of PreparationCircuit are satisfied for
\* a non-zero friend whose verification is neither well-formed nor in the
\* tree.
C3_FailingState ==
    /\ PreparationSynthesized /\ sat
    /\ inst.friend_address # Fr(0)
    /\ ~WellFormed(inst) /\ ~InTree(inst)

\* C4: with friend_address = 0 the verification check is suppressed: fails
\* is false whatever verification, its path, its directions and
\* verification_root are, and the circuit is satisfied if and only if the
\* commit-root constraint holds.
C4_EmptySlotSuppressesCheck ==
    (PreparationSynthesized /\ prover = "honest" /\ inst.friend_address = Fr(0)) =>
        /\ ~w.addr_nonzero
        /\ ~w.fails
        /\ sat <=> CommitRootHolds(inst)

\* C4 witness: the circuit is satisfied for an empty slot whose verification
\* is neither well-formed nor in the tree.
C4_Witness ==
    /\ PreparationSynthesized /\ prover = "honest" /\ sat
    /\ inst.friend_address = Fr(0)
    /\ ~WellFormed(inst) /\ ~InTree(inst)

PreparationOrder ==
    <<<<"commit_root", 0>>>> \o
    [i \in 1..FRIENDS_MERKLE_DEPTH |-> <<"friend_directions", i - 1>>] \o
    <<<<"nonce", 0>>, <<"pre_transfer_index", 0>>, <<"verification_root", 0>>>>

LadderRoot ==
    TestCommitRoot(TestAddrRoot(inst.addresses), inst.passphrase, inst.threshold,
                   inst.nonce)

CommitChecked == pc \in {"committed", "counted", "synthesized"}

\* C5: in each of the three circuits the root computed for an opening
\* (addresses, passphrase, threshold, nonce) is
\* H(H(H(addr_root, passphrase), threshold), nonce) with NoteCommitment at
\* each step, so the commit-root constraint of each circuit accepts the same
\* commit_root (in PreparationCircuit for any leaf of addresses presented
\* with its authentic sibling path).
C5_SameCommitRootLadder ==
    CommitChecked =>
        /\ sat => inst.commit_root = w.computed_commit_root
        /\ prover = "honest" =>
              /\ w.computed_commit_root = LadderRoot
              /\ circuit = "PreTransfer" =>
                    w.computed_commit_root_t =
                        TestCommitRoot(TestAddrRoot(inst.addresses), inst.passphrase,
                                       inst.threshold, inst.address_new)
              /\ sat => inst.commit_root = LadderRoot
              /\ pc = "committed" => (sat <=> inst.commit_root = LadderRoot)

\* C5 witness: the commit-root constraint holds in a run of
\* PreparationCircuit for a non-zero friend that is a right child.
C5_Witness ==
    /\ circuit = "Preparation" /\ CommitChecked /\ prover = "honest" /\ sat
    /\ inst.friend_directions[1] /\ inst.friend_address # Fr(0)
    /\ inst.commit_root = LadderRoot

(***************************************************************************)
(* Claims about the counting window and fr_eq.                             *)
(***************************************************************************)
CheckAddressCntDone == circuit = "check_address_cnt" /\ pc = "done"

\* C11: with threshold = 0, check_address_cnt(count_valid_addreses(addresses,
\* vlist), 0) is true for every address vector and every vlist.
C11_ThresholdZeroAcceptsAny ==
    (TransferSynthesized /\ prover = "honest" /\ inst.threshold = Fr(0)) =>
        w.enough_valid_addr.result

\* C11 as amended: with threshold = 0 the check is true exactly when fewer
\* than MAX_FRIENDS_LEN slots are approved and non-empty, and false when all
\* MAX_FRIENDS_LEN are.
C11_ThresholdZeroWindow ==
    (TransferSynthesized /\ prover = "honest" /\ inst.threshold = Fr(0)) =>
        /\ w.valid_addr_cnt.result = Fr(ApprovedFriends(inst))
        /\ w.enough_valid_addr.result <=> ApprovedFriends(inst) < MAX_FRIENDS_LEN

\* C11 witness: with threshold = 0 the check is true for a vlist that
\* approves an empty slot beside a non-empty one.
C11_Witness ==
    /\ TransferSynthesized /\ prover = "honest" /\ inst.threshold = Fr(0)
    /\ w.enough_valid_addr.result
    /\ \A i \in 1..MAX_FRIENDS_LEN : inst.vlist[i]
    /\ ApprovedFriends(inst) = MAX_FRIENDS_LEN - 1

\* C12: for a threshold t <= MAX_FRIENDS_LEN the count t + MAX_FRIENDS_LEN - 1
\* is accepted and the count t + MAX_FRIENDS_LEN is rejected; threshold 1
\* with every slot non-empty and approved is accepted, threshold 0 with
\* every slot non-empty and approved is rejected.
C12_UpperEdgeOfWindow ==
    /\ (CheckAddressCntDone /\ inst.threshold[2] <= MAX_FRIENDS_LEN) =>
          /\ (prover = "honest"
                /\ inst.address_cnt = FrAdd(inst.threshold, Fr(MAX_FRIENDS_LEN - 1)))
                => w.result
          /\ inst.address_cnt = FrAdd(inst.threshold, Fr(MAX_FRIENDS_LEN)) => ~w.result
    /\ (TransferSynthesized /\ prover = "honest"
          /\ ApprovedFriends(inst) = MAX_FRIENDS_LEN) =>
          /\ inst.threshold = Fr(1) => w.enough_valid_addr.result
          /\ inst.threshold = Fr(0) => ~w.enough_valid_addr.result

\* C12 witness: TransferCircuit is satisfied with threshold 1 and every
\* slot non-empty and approved.
C12_Witness ==
    /\ TransferSynthesized /\ prover = "honest" /\ sat
    /\ inst.threshold = Fr(1)
    /\ ApprovedFriends(inst) = MAX_FRIENDS_LEN

\* C13: for every threshold scalar greater than MAX_FRIENDS_LEN,
\* check_address_cnt rejects every count in 0..MAX_FRIENDS_LEN, and
\* TransferCircuit is not satisfiable.
C13_LargeThresholdRejected ==
    /\ (CheckAddressCntDone /\ inst.threshold[2] > MAX_FRIENDS_LEN
          /\ inst.address_cnt[2] <= MAX_FRIENDS_LEN) => ~w.result
    /\ (TransferSynthesized /\ inst.threshold[2] > MAX_FRIENDS_LEN) => ~sat

\* C13 failing state: TransferCircuit is satisfied, by the assignment of
\* the closures, with the threshold r - 1 and no approved slot.
C13_FailingState ==
    /\ TransferSynthesized /\ prover = "honest" /\ sat
    /\ inst.threshold = Fr(Modulus - 1)
    /\ inst.threshold[2] > MAX_FRIENDS_LEN
    /\ ApprovedFriends(inst) = 0

\* C14: under every assignment that satisfies the constraints of fr_eq, the
\* boolean it returns is true if and only if a = b.
C14_FrEqExact ==
    (circuit = "fr_eq" /\ pc = "done") => (w.result <=> inst.a = inst.b)

\* C14 restricted to the assignment the closures of the source compute.
C14_HonestFrEqExact ==
    (circuit = "fr_eq" /\ pc = "done" /\ prover = "honest") =>
        (w.result <=> inst.a = inst.b)

\* C14 under every assignment: fr_eq is never true of unequal operands.
C14_FrEqSound ==
    (circuit = "fr_eq" /\ pc = "done" /\ w.result) => inst.a = inst.b

\* C14 failing state: fr_eq has returned false for two equal operands.
C14_FailingState ==
    /\ circuit = "fr_eq" /\ pc = "done"
    /\ inst.a = inst.b
    /\ ~w.result

(***************************************************************************)
(* Claims about merkle_root_from_path and bulid_merkle_tree.               *)
(***************************************************************************)
\* C15: for every leaf vector L of a power-of-two length and every position
\* p, merkle_root_from_path(L[p], path), path being the leaves-to-root
\* sibling chain of p with direction bit i = bit i of p, returns the root
\* bulid_merkle_tree(L) returns.
C15_PathTreeAgreement ==
    (circuit = "bulid_merkle_tree" /\ pc = "done" /\ prover = "honest") =>
        /\ w.path_root = w.address_root
        /\ \A i \in 1..Len(AuthPath(inst.leaves, inst.pos)) :
              AuthPath(inst.leaves, inst.pos)[i][2]
                  = ((inst.pos \div Pow2(i - 1)) % 2 = 1)

\* C15 witness: both roots have been computed for four leaves that are not
\* all equal and a position that is a right child, then a left child.
C15_Witness ==
    /\ circuit = "bulid_merkle_tree" /\ pc = "done" /\ prover = "honest"
    /\ Len(inst.leaves) = 4 /\ inst.pos = 1
    /\ inst.leaves[1] # inst.leaves[2] /\ inst.leaves[3] # inst.leaves[4]
    /\ w.path_root = w.address_root

\* C16: merkle_root_from_path folds the path leaves-to-root, hashing at
\* step i (cur, sibling_i) when direction_i is false and (sibling_i, cur)
\* when it is true, under MerkleTree(i); the result is the root the same
\* ladder gives outside the circuit, for every path length and directions.
C16_MerkleRootFromPath ==
    (circuit = "merkle_root_from_path" /\ pc = "done" /\ prover = "honest") =>
        w.hash_result = TestMerkleRoot(inst.leaf, inst.auth_path)

\* C16 witness: the root of a path of two steps, the first with the current
\* node on the right and the second with it on the left, has been computed.
C16_Witness ==
    /\ circuit = "merkle_root_from_path" /\ pc = "done" /\ prover = "honest"
    /\ Len(inst.auth_path) = 2
    /\ inst.auth_path[1][2] /\ ~inst.auth_path[2][2]
    /\ inst.auth_path[1][1] # inst.leaf
    /\ w.hash_result =
          TestCombineHash(MerkleTree(1),
              TestCombineHash(MerkleTree(0), inst.auth_path[1][1], inst.leaf),
              inst.auth_path[2][1])

IsPowerOfTwo(n) == \E d \in 0..n : Pow2(d) = n

Log2(n) == CHOOSE d \in 0..n : Pow2(d) = n

BuildLoop == circuit = "bulid_merkle_tree_loop"

\* The hashes of the adjacent pairs of v under MerkleTree(l).
PairHashes(v, l) ==
    [i \in 1..(Len(v) \div 2) |->
        TestCombineHash(MerkleTree(l), v[2 * i - 1], v[2 * i])]

\* C17, the state of the loop on n = 2^d leaves: after l levels the vector
\* has n / 2^l nodes and has used n - n / 2^l hashes; it returns after
\* exactly d levels and n - 1 hashes, the leaf itself for n = 1, and the
\* root is the function of the leaves the ladder outside the circuit gives.
C17_BuildState ==
    (BuildLoop /\ IsPowerOfTwo(Len(inst.leaves))) =>
        LET n == Len(inst.leaves)
        IN  /\ pc # "panicked"
            /\ w.level <= Log2(n)
            /\ Len(w.cur) * Pow2(w.level) = n
            /\ w.hashes = n - Len(w.cur)
            /\ pc = "returned" =>
                  /\ w.level = Log2(n)
                  /\ w.hashes = n - 1
                  /\ n = 1 => w.root = inst.leaves[1]
                  /\ prover = "honest" => w.root = TestAddrRoot(inst.leaves)

\* C17, one level: the vector is replaced by the hashes of its adjacent
\* pairs under MerkleTree(level), and level grows by one.
C17_BuildStep ==
    (BuildLoop /\ IsPowerOfTwo(Len(inst.leaves)) /\ prover = "honest"
        /\ pc = "while" /\ w'.level # w.level) =>
        /\ w'.level = w.level + 1
        /\ w'.cur = PairHashes(w.cur, w.level)

\* C17: bulid_merkle_tree on n = 2^d leaves terminates after exactly d
\* levels with a single node, halving the vector at each level by hashing
\* adjacent pairs under MerkleTree(level), with n - 1 hashes in total; for
\* n = 1 it returns the leaf; the root is a function of the leaves.
C17_BuildTerminates ==
    /\ []C17_BuildState
    /\ [][C17_BuildStep]_vars
    /\ (BuildLoop /\ IsPowerOfTwo(Len(inst.leaves))) ~> (pc = "returned")

\* C17 witness: the loop has returned the root of four all-zero leaves.
C17_Witness ==
    /\ BuildLoop /\ pc = "returned" /\ prover = "honest"
    /\ inst.leaves = <<Fr(0), Fr(0), Fr(0), Fr(0)>>
    /\ w.level = 2 /\ w.hashes = 3
    /\ w.root = TestAddrRoot(inst.leaves)

\* C18: on a leaf vector whose length is not a positive power of two
\* bulid_merkle_tree never returns a root and does not run forever: it
\* fails.
C18_BuildRejectsBadLength ==
    /\ [](BuildLoop /\ pc = "returned" => IsPowerOfTwo(Len(inst.leaves)))
    /\ (BuildLoop /\ ~IsPowerOfTwo(Len(inst.leaves))) ~> (pc = "panicked")

\* C18, the part that holds: no root is returned for such a length, and a
\* non-empty vector of such a length fails.
C18_NonEmptyBadLengthFails ==
    /\ [](BuildLoop /\ pc = "returned" => IsPowerOfTwo(Len(inst.leaves)))
    /\ (BuildLoop /\ ~IsPowerOfTwo(Len(inst.leaves)) /\ inst.leaves # <<>>)
          ~> (pc = "panicked")

\* C18 failing state: on the empty vector the loop is still running with
\* nothing left to hash, level after level.
C18_FailingState ==
    /\ BuildLoop /\ pc = "while"
    /\ inst.leaves = <<>>
    /\ w.cur = <<>>
    /\ w.level = Pow2(USIZE_BITS) - 1

(***************************************************************************)
(* Claims about the entry points.                                          *)
(***************************************************************************)
Circuits == {"PreTransfer", "Preparation", "Transfer"}

ScalarArguments ==
    {"commit_root", "commit_root_t", "address_new", "nonce", "pre_transfer_index",
     "verification_root"}

\* The arguments of a verify call decode: every scalar is the representation
\* of an integer below r, the proof is well formed and the verifying key is
\* the well-formed key of the circuit.
Decodes(a) ==
    /\ \A f \in DOMAIN a \cap ScalarArguments : a[f][1] = "repr" => a[f][2] < Modulus
    /\ a.proof # MalformedProof
    /\ a.vk = circuit

\* C19: each verify entry point returns 1 exactly when Groth16 verification
\* accepts, 0 exactly when a well-formed proof is rejected, and no other
\* value; with an argument that does not decode (scalar bytes of a value
\* >= r, malformed proof or verifying key) the call aborts and returns
\* neither.
C19_VerifyReturn ==
    (circuit \in Circuits /\ pc \in {"verified", "verify_aborted"}) =>
        /\ pc = "verified" <=> Decodes(vargs)
        /\ pc = "verified" =>
              /\ ret \in {0, 1}
              /\ ret = 1 <=> verify_proof(circuit, vargs.proof, inputs)
              /\ \A i \in 1..Len(inputs) : inputs[i].value # Panic
        /\ pc = "verify_aborted" => ret = -1

\* C19 witness: a verify call has aborted on a commit_root whose bytes
\* encode r, the other arguments being those of an accepted call.
C19_Witness ==
    /\ circuit \in Circuits /\ pc = "verify_aborted"
    /\ vargs.commit_root = OverflowRepr
    /\ vargs.proof = proof_out_buf /\ vargs.vk = circuit
    /\ ret = -1

\* The input vector a generate_* entry point builds from its own arguments.
OwnInputs ==
    CASE circuit = "PreTransfer" ->
           PreTransferInputs(inst.commit_root, inst.commit_root_t, inst.address_new,
                             inst.nonce)
      [] circuit = "Preparation" ->
           PreparationGenInputs(inst.commit_root, inst.friend_directions, inst.nonce,
                                inst.pre_transfer_index, inst.verification_root)
      [] circuit = "Transfer" -> TransferGenInputs(inst.commit_root, inst.vlist)

\* The statement of the circuit holds of the arguments of the call.
StatementHolds ==
    CASE circuit = "PreTransfer" ->
           /\ inst.commit_root = LadderRoot
           /\ inst.commit_root_t =
                 TestCommitRoot(TestAddrRoot(inst.addresses), inst.passphrase,
                                inst.threshold, inst.address_new)
      [] circuit = "Preparation" ->
           /\ CommitRootHolds(inst)
           /\ inst.friend_address # Fr(0) => (WellFormed(inst) /\ InTree(inst))
      [] circuit = "Transfer" ->
           /\ inst.commit_root = LadderRoot
           /\ InWindow(Fr(ApprovedFriends(inst)), inst.threshold)

Returned == pc \in {"returned", "verified", "verify_aborted"}

\* C20: a generate_* entry point returns normally only if the proof it
\* produced verifies under the verifying key of its parameters against the
\* public inputs taken from its own arguments; when the witnesses it is
\* given do not satisfy the statement of the circuit (Transfer with a count
\* below the threshold) the call is fatal and does not return.
C20_GenerateSelfVerifies ==
    circuit \in Circuits =>
        /\ Returned => /\ verify_proof(circuit, proof, OwnInputs)
                       /\ proof_out_buf = proof
        /\ (prover = "honest" /\ (Returned \/ pc = "aborted")) =>
              (pc = "aborted" <=> ~StatementHolds)
        /\ (prover = "honest" /\ circuit = "Transfer"
              /\ ApprovedFriends(inst) < inst.threshold[2]
              /\ inst.threshold[2] <= MAX_FRIENDS_LEN) => ~Returned

\* C20 witness: _generate_transfer_proof has aborted on an opening of its
\* commit_root whose count of approved non-empty slots is below the
\* threshold.
C20_Witness ==
    /\ circuit = "Transfer" /\ pc = "aborted" /\ prover = "honest"
    /\ inst.commit_root = LadderRoot
    /\ inst.vlist[1] /\ inst.addresses[1] = Fr(0)
    /\ ApprovedFriends(inst) < inst.threshold[2]
    /\ inst.threshold[2] <= MAX_FRIENDS_LEN

(***************************************************************************)
(* Claims about get_bls_params.                                            *)
(***************************************************************************)
\* The threads that are past call_once in their current call.
PastCallOnce == {t \in Threads : w.tpc[t] \in {"deref", "returned", "faulted"}}

\* JubjubBls12::new() has run at most once; a thread past call_once finds
\* it run, the Once completed and the pointer set; and every reference
\* returned is the pointer, which is not null.
C21_OnceState ==
    circuit = "get_bls_params" =>
        /\ w.news <= 1
        /\ \A t \in PastCallOnce :
              /\ w.news = 1
              /\ w.START = "COMPLETE"
              /\ w.BLS_PARAMS # Null
              /\ w.tpc[t] # "faulted"
        /\ \A t \in Threads :
              w.calls[t] > 0 /\ w.tpc[t] \in {"idle", "returned"}
                  => w.ref[t] = w.BLS_PARAMS /\ w.ref[t] # Null

\* Once set, BLS_PARAMS is not written again, and a reference a call
\* returned is the one every later call of the thread returns.
C21_PointerStep ==
    circuit = "get_bls_params" =>
        /\ w.BLS_PARAMS # Null => w'.BLS_PARAMS = w.BLS_PARAMS
        /\ \A t \in Threads : w.ref[t] # Null => w'.ref[t] = w.ref[t]

\* C21: under every interleaving of the calls of get_bls_params by several
\* threads, JubjubBls12::new() runs exactly once, no call reads BLS_PARAMS
\* while it is null (a call returns only after the initialization has
\* completed), every call returns a reference to the same table, and
\* BLS_PARAMS is never written again once it is set.
C21_OneShotInit == []C21_OnceState /\ [][C21_PointerStep]_vars

\* C21 witness: every thread has made all its calls and returned from the
\* last, one of them having run the closure while another was at call_once.
C21_Witness ==
    /\ circuit = "get_bls_params"
    /\ \A t \in Threads : w.calls[t] = MaxCalls /\ w.tpc[t] = "returned"
    /\ w.news = 1
    /\ \A t \in Threads : w.ref[t] = 1

(***************************************************************************)
(* Claims about the FFI encoding of booleans.                              *)
(***************************************************************************)
\* The boolean public inputs of the run: the bytes the prover passed, the
\* bits decoded from them, the bytes the verifier passed, and their name.
BitName == IF circuit = "Transfer" THEN "vlist" ELSE "friend_directions"

ProverBytes == IF circuit = "Transfer" THEN inst.vlist_bytes ELSE inst.friend_directions_bytes

ProverBits == IF circuit = "Transfer" THEN inst.vlist ELSE inst.friend_directions

VerifierBytes == IF circuit = "Transfer" THEN vargs.vlist ELSE vargs.friend_directions

\* The verifier passed the scalars of the instance.
SameScalars ==
    /\ read_field_from_c_ptr(vargs.commit_root) = inst.commit_root
    /\ circuit = "Preparation" =>
          /\ read_field_from_c_ptr(vargs.nonce) = inst.nonce
          /\ read_field_from_c_ptr(vargs.pre_transfer_index) = inst.pre_transfer_index
          /\ read_field_from_c_ptr(vargs.verification_root) = inst.verification_root

\* The scalar of a byte: 0 for the byte 0, 1 for every other byte.
ScalarOfByte(b) == IF b = 0 THEN Fr(0) ELSE Fr(1)

\* C22: the FFI decodes a boolean byte the same way on both sides: the
\* prover's witness bit is false for the byte 0 and true for every other
\* byte, the public scalar of the bit is 0 for false and 1 for true, the
\* verifier's scalar is 0 for the byte 0 and 1 for every other byte, so a
\* proof made with bytes b verifies under bytes b' exactly when b'[i] is
\* zero where b[i] is, for vlist (Transfer) and friend_directions
\* (Preparation).
C22_BooleanDecoding ==
    circuit \in {"Transfer", "Preparation"} =>
        /\ \A i \in 1..Len(ProverBytes) : ProverBits[i] = (ProverBytes[i] # 0)
        /\ circuit = "Preparation" =>
              \A i \in 1..VERIFICATION_MERKLE_DEPTH :
                  inst.verification_directions[i]
                      = (inst.verification_directions_bytes[i] # 0)
        /\ pc \notin {"entry", "start"} =>
              \A k \in 1..Len(pub) :
                  pub[k].name = BitName =>
                      pub[k].value = ScalarOfByte(ProverBytes[pub[k].index + 1])
        /\ pc = "verified" =>
              /\ \A k \in 1..Len(inputs) :
                    inputs[k].name = BitName =>
                        inputs[k].value = ScalarOfByte(VerifierBytes[inputs[k].index + 1])
              /\ SameScalars =>
                    (ret = 1 <=> \A i \in 1..Len(ProverBytes) :
                                    (VerifierBytes[i] = 0) <=> (ProverBytes[i] = 0))

\* C22 witness: a proof made with the byte 255 for an approval has been
\* accepted under the byte 1 for it, another entry being 0 on both sides.
C22_Witness ==
    /\ circuit = "Transfer" /\ pc = "verified" /\ ret = 1
    /\ \E i, j \in 1..MAX_FRIENDS_LEN :
          /\ inst.vlist_bytes[i] = 255 /\ vargs.vlist[i] = 1
          /\ inst.vlist_bytes[j] = 0 /\ vargs.vlist[j] = 0

(***************************************************************************)
(* Claims about the boolean public inputs.                                 *)
(***************************************************************************)
\* The positions of the boolean public inputs in the input vector.
BitInputs == {k \in 1..Len(pub) : pub[k].name = BitName}

\* The bits the circuit goes on with, read back from the public inputs.
PublishedBits == [i \in 1..Len(ProverBits) |-> pub[i + 1].value = Fr(1)]

\* The public inputs with the k-th replaced by the scalar x.
Supplied(k, x) == [pub EXCEPT ![k] = Input(pub[k].name, pub[k].index, x)]

\* C23: each boolean public input (vlist[i] of Transfer, friend_directions[i]
\* of Preparation) is 0 or 1 under every assignment, and is 1 exactly when
\* the bit the circuit uses is true: the approval flag that enters
\* is_addr_valid[i], the direction that orders the pair hashed on the
\* friend's path.  No proof is accepted under an input vector that has a
\* scalar other than 0 or 1 in such a position.
C23_BooleanInputsBound ==
    circuit \in {"Transfer", "Preparation"} /\ pc \notin {"entry", "start"} =>
        /\ \A k \in BitInputs :
              /\ pub[k].value \in {Fr(0), Fr(1)}
              /\ (pub[k].value = Fr(1)) = ProverBits[pub[k].index + 1]
        /\ circuit = "Transfer" /\ pc \in {"counted", "synthesized"} =>
              \A i \in 1..MAX_FRIENDS_LEN :
                  w.valid_addr_cnt.is_addr_valid[i]
                      = (PublishedBits[i] /\ w.valid_addr_cnt.is_addr_not_null[i])
        /\ circuit = "Preparation" /\ pc \in {"committed", "synthesized"} =>
              w.address_root \in
                  merkle_root_from_path(inst.friend_address,
                      [i \in 1..FRIENDS_MERKLE_DEPTH |->
                          <<inst.friend_path[i], PublishedBits[i]>>],
                      prover)
        /\ pc \in {"proved", "written", "returned", "aborted", "verified"} =>
              \A k \in BitInputs : \A x \in FrScalars \ {Fr(0), Fr(1)} :
                  ~verify_proof(circuit, proof, Supplied(k, x))

\* C23 witness: another assignment than the closures' has given a proof
\* that verifies, with one approval published as 1 and one as 0, the first
\* counted as valid.
C23_Witness ==
    /\ circuit = "Transfer" /\ prover = "malicious" /\ pc = "returned"
    /\ verify_proof(circuit, proof, pub)
    /\ \E i, j \in 1..MAX_FRIENDS_LEN :
          /\ pub[i + 1].value = Fr(1) /\ inst.addresses[i] # Fr(0)
          /\ pub[j + 1].value = Fr(0)

(***************************************************************************)
(* Claims about _jubjub_hash.                                              *)
(***************************************************************************)
\* The root a caller computes for the friends vector by _jubjub_hash calls
\* alone, level by level under the tags 0, 1, ...
RECURSIVE JubjubTreeFrom(_, _)
JubjubTreeFrom(cur, level) ==
    IF Len(cur) <= 1 THEN cur[1]
    ELSE JubjubTreeFrom([i \in 1..(Len(cur) \div 2) |->
                            jubjub_hash(level, cur[2 * i - 1], cur[2 * i])],
                        level + 1)

\* The commit root a caller computes for an opening by _jubjub_hash calls
\* alone: the tree, then three calls under the tag -1.
JubjubCommitRoot(addresses, passphrase, threshold, last) ==
    LET addr_root == JubjubTreeFrom([i \in 1..Len(addresses) |->
                                        write_field_to_c_ptr(addresses[i])], 0)
        t1 == jubjub_hash(-1, addr_root, write_field_to_c_ptr(passphrase))
        t  == jubjub_hash(-1, t1, write_field_to_c_ptr(threshold))
    IN  jubjub_hash(-1, t, write_field_to_c_ptr(last))

\* C24: for every tag (-1 for NoteCommitment, k >= 0 for MerkleTree(k)) and
\* every pair of operands, _jubjub_hash writes the value the in-circuit
\* combine_hash computes for the pair under that personalization: the
\* digest of the NUM_BITS little-endian bits of a followed by those of b.
\* So the commit root a caller computes for an opening through _jubjub_hash
\* is the root the circuits compute for it, and the one their commit-root
\* constraint accepts.
C24_HashAgreement ==
    /\ circuit = "_jubjub_hash" /\ pc = "done" =>
          LET fr_a == read_field_from_c_ptr(inst.fr_ptr_a)
              fr_b == read_field_from_c_ptr(inst.fr_ptr_b)
              tag  == IF inst.personalization = -1 THEN NoteCommitment
                      ELSE MerkleTree(inst.personalization)
          IN  /\ combine_hash(tag, fr_a, fr_b, "honest")
                    = {read_field_from_c_ptr(w.out_ptr)}
              /\ read_field_from_c_ptr(w.out_ptr)
                    = <<"ph", tag, fr_to_bits_le(fr_a), fr_to_bits_le(fr_b)>>
    /\ circuit \in Circuits /\ CommitChecked /\ prover = "honest" =>
          LET root == read_field_from_c_ptr(
                          JubjubCommitRoot(inst.addresses, inst.passphrase,
                                           inst.threshold, inst.nonce))
          IN  /\ w.computed_commit_root = root
              /\ pc = "committed" => (sat <=> inst.commit_root = root)
              /\ circuit = "PreTransfer" =>
                    w.computed_commit_root_t =
                        read_field_from_c_ptr(
                            JubjubCommitRoot(inst.addresses, inst.passphrase,
                                             inst.threshold, inst.address_new))

\* C24 witness: a call under a MerkleTree tag on a scalar whose bits are
\* not a palindrome and on the output of an earlier call.
C24_Witness ==
    /\ circuit = "_jubjub_hash" /\ pc = "done"
    /\ inst.personalization = 1
    /\ inst.fr_ptr_a = write_field_to_c_ptr(Fr(1))
    /\ inst.fr_ptr_b[1] = "repr_of"

(***************************************************************************)
(* Claims about the order of the steps of the generate_* entry points.     *)
(***************************************************************************)
\* The positions of a generate_* call before create_random_proof returns.
BeforeProof == {"entry", "start", "allocated", "committed", "counted", "synthesized"}

\* What each position of a generate_* call has done: no proof before
\* create_random_proof, the buffer untouched before proof.write, the
\* assertion not evaluated before the write; after a failed assertion the
\* buffer holds the proof the assertion rejected.
C25_OrderState ==
    circuit \in Circuits =>
        /\ pc \in BeforeProof =>
              proof = NoProof /\ proof_out_buf = NoProof /\ inputs = <<>>
        /\ pc = "proved" =>
              proof.circuit = circuit /\ proof_out_buf = NoProof /\ inputs = <<>>
        /\ pc = "written" =>
              proof.circuit = circuit /\ proof_out_buf = proof /\ inputs = <<>>
        /\ pc = "returned" =>
              proof_out_buf = proof /\ verify_proof(circuit, proof_out_buf, inputs)
        /\ pc = "aborted" =>
              /\ proof_out_buf = proof
              /\ proof_out_buf # NoProof
              /\ ~verify_proof(circuit, proof_out_buf, inputs)

\* The positions follow one another in one order: parameters read at
\* entry, the proof created once synthesize is through, the proof written
\* once created, the assertion evaluated once the proof is written.
C25_OrderStep ==
    circuit \in Circuits /\ pc' # pc =>
        /\ pc' = "start" <=> pc = "entry"
        /\ pc' = "proved" <=> pc = "synthesized"
        /\ pc' = "written" <=> pc = "proved"
        /\ pc' \in {"returned", "aborted"} <=> pc = "written"
        /\ proof_out_buf' # proof_out_buf => pc = "proved"

\* C25: in every generate_* entry point the steps occur in the order read
\* parameters, create proof, write the proof to proof_out_buf, evaluate the
\* self-verification assertion; so when the assertion fails and the call
\* aborts, proof_out_buf already holds the rejected proof.
C25_GenerateOrder == []C25_OrderState /\ [][C25_OrderStep]_vars

\* C25 witness: a call has aborted on its assertion and the caller's buffer
\* holds a proof of the circuit that does not verify.
C25_Witness ==
    /\ circuit \in Circuits /\ pc = "aborted"
    /\ proof_out_buf.circuit = circuit /\ ~proof_out_buf.valid

====
